---- MODULE Spec2Model ----
(***************************************************************************)
(* A model of the JSentinel analysis engine: the version-range matcher and *)
(* the dependency scan, the per-file data-flow graph and its queries, the   *)
(* severity filter and the public scan operations, and the parallel scan    *)
(* orchestrator with its worker pool.                                       *)
(*                                                                          *)
(* Strings are sequences of one-character strings, so that split, Number,   *)
(* join and the sanitizing replace are modelled by what they do.            *)
(***************************************************************************)
EXTENDS Integers, Sequences, FiniteSets, TLC

(***************************************************************************)
(* Bounds of the model.                                                     *)
(***************************************************************************)
\* Version components of the generated version strings range over 0..MaxComp.
MaxComp == 1
\* A scanned file has at most MaxStmts statements.
MaxStmts == 3
\* The call stack holds at most MaxStack frames of a recursive query; the
\* next call fails with RangeError (Maximum call stack size exceeded).
MaxStack == 5
\* scanInParallel is handed at most MaxFiles files.
MaxFiles == 3
\* options.maxWorkers is at most MaxWorkers.
MaxWorkers == 2
\* A scanned project directory has at most MaxEntries entries.
MaxEntries == 2
\* An object or array literal, and an object or array pattern, has at most
\* MaxProps properties or elements.
MaxProps == 2
\* A rule file carries at most MaxRules rules, and a Scanner is followed
\* while its rule set and its custom rules number at most MaxLoaded each.
MaxRules == 2
MaxLoaded == 4
\* The clock runs from 0 to MaxTime.
MaxTime == 3
\* The scanSourceFile calls that may be in flight on one Scanner.
MaxCalls == 2

VARIABLES
    \* ---- Scanner: dependency scan (part_004) ----
    vulnerabilityDB,    \* Scanner.vulnerabilityDB: package -> list of records
    dependencies,       \* the manifest's dependencies: list of [pkg, version]
    nodeModules,        \* packages for which node_modules/<pkg> exists
    vulnerabilities,    \* the findings array scanDependencies pushes to
    depPc,              \* "ready" before scanDependencies ran, "done" after
    lastCall,           \* the isVersionInRange calls made by the scan, in order
    \* ---- Scanner: per-file data-flow graph and its queries (part_004) ----
    ast,                \* the statements of the file being scanned
    dataFlowGraph,      \* Scanner.dataFlowGraph: Map in insertion order
    flowPc,             \* "parsed", "built", "sources", "sinks", "done", "overflow"
    query,              \* the flow-node-id the running query was asked about
    stack,              \* the call stack of the running recursive query
    flowResult,         \* what the finished query returned
    \* ---- ParallelScanner and its worker threads (parallel/scanner.ts) ----
    files,              \* the file list handed to scanInParallel
    numWorkers,         \* ParallelScanner.numWorkers
    workers,            \* ParallelScanner.workers: the ids of the pushed workers
    thread,             \* worker id -> the worker thread's own state
    port,               \* worker id -> messages posted and not yet handled
    promises,           \* worker id -> createWorker's promise and results array
    callPc,             \* where the scanInParallel call is
    results,            \* the results array of scanInParallel
    completedFiles,     \* the progress counter of scanInParallel
    \* ---- Scanner: options and the public scan operations (part_004) ----
    minSeverity,        \* Scanner.options.minSeverity
    constructedMin,     \* options.minSeverity as given to the constructor, <<>> if not
    project,            \* the directory entries of the scanned project
    op,                 \* the scan operation in flight and its local state
    lastFilter,         \* the last filterBySeverity call: input, minimum, output
    handed,             \* what the last finished operation handed to its caller
    \* ---- Scanner.matchesPattern (part_004) ----
    matchNode,          \* the AST node handed to matchesPattern
    matchRule,          \* the CodePattern handed to matchesPattern
    matchPc,            \* "ready" before the call, "done" after it
    matchResult,        \* what the call did: "true", "false" or the error thrown
    \* ---- Scanner: the rule set (part_004) ----
    codePatterns,       \* Scanner.codePatterns
    customPatterns,     \* Scanner.options.customPatterns
    baseLoaded,         \* the rules of the base file loadCodePatterns read last
    customLoaded,       \* the valid custom rules loaded or added so far
    \* ---- Cache / VulnerabilityCache (ml/detector.ts) ----
    cacheFiles,         \* the cache directory: key -> stored CacheEntry
    now,                \* Date.now()
    cacheCall,          \* the cache or database operation that ran last
    \* ---- the legacy Scanner (scanner.js) ----
    legacyVersion,      \* the version handed to _isVersionVulnerable
    legacyRanges,       \* the ranges handed to _isVersionVulnerable
    legacyPc,           \* "called" before the call runs, "done" after
    legacyVulnerable,   \* what _isVersionVulnerable returned
    \* ---- scanSourceFile calls in flight on one Scanner (watch mode) ----
    inFlight,           \* call -> <<file>> while it awaits readFile, <<>> else
    enableDataFlow,     \* options.enableDataFlow
    analysed,           \* the file analysed last and the graph its analysis saw
    \* ---- one project scanned by either regime ----
    customRulesFile,    \* options.customRules: <<>> if unset, else <<rules of the file>>
    regimeFound,        \* the regime that ran last and what it returned
    \* ---- ParallelScanner: scanInParallel calls that overlap ----
    calls               \* call -> its files, worker promises, position and results

depVars == <<vulnerabilityDB, dependencies, nodeModules, vulnerabilities, depPc, lastCall>>

flowVars == <<ast, dataFlowGraph, flowPc, query, stack, flowResult>>

parVars == <<files, numWorkers, workers, thread, port, promises, callPc, results,
             completedFiles>>

scanVars == <<minSeverity, constructedMin, project, op, lastFilter, handed>>

matchVars == <<matchNode, matchRule, matchPc, matchResult>>

ruleVars == <<codePatterns, customPatterns, baseLoaded, customLoaded>>

cacheVars == <<cacheFiles, now, cacheCall>>

legacyVars == <<legacyVersion, legacyRanges, legacyPc, legacyVulnerable>>

watchVars == <<inFlight, enableDataFlow, analysed>>

regimeVars == <<customRulesFile, regimeFound>>

overlapVars == <<calls>>

vars == <<depVars, flowVars, parVars, scanVars, matchVars, ruleVars, cacheVars, legacyVars,
          watchVars, regimeVars, overlapVars>>

\* What the operations of one part leave alone: the state of the others.
notDep == <<flowVars, parVars, scanVars, matchVars, ruleVars, cacheVars, legacyVars, watchVars, regimeVars, overlapVars>>
notFlow == <<depVars, parVars, scanVars, matchVars, ruleVars, cacheVars, legacyVars, watchVars, regimeVars, overlapVars>>
notPar == <<depVars, flowVars, scanVars, matchVars, ruleVars, cacheVars, legacyVars, watchVars, regimeVars, overlapVars>>
notScan == <<depVars, flowVars, parVars, matchVars, ruleVars, cacheVars, legacyVars, watchVars, regimeVars, overlapVars>>
notMatch == <<depVars, flowVars, parVars, scanVars, ruleVars, cacheVars, legacyVars, watchVars, regimeVars, overlapVars>>
notRules == <<depVars, flowVars, parVars, scanVars, matchVars, cacheVars, legacyVars, watchVars, regimeVars, overlapVars>>
\* The cache and database operations change vulnerabilityDB and leave the
\* rest of the dependency scan alone.
notCache == <<dependencies, nodeModules, vulnerabilities, depPc, lastCall,
              flowVars, parVars, scanVars, matchVars, ruleVars, legacyVars, watchVars,
              regimeVars, overlapVars>>
\* The scanSourceFile calls change dataFlowGraph and leave the rest of the
\* data-flow queries alone.
notWatch == <<ast, flowPc, query, stack, flowResult,
              depVars, parVars, scanVars, matchVars, ruleVars, cacheVars, legacyVars,
              regimeVars, overlapVars>>
\* A scan reads the rule set and changes none of it.
notRegime == <<depVars, flowVars, parVars, scanVars, matchVars, ruleVars, cacheVars,
               legacyVars, watchVars, overlapVars>>
notLegacy == <<depVars, flowVars, parVars, scanVars, matchVars, ruleVars, cacheVars, watchVars, regimeVars, overlapVars>>

(***************************************************************************)
(* JavaScript string and number primitives used by the version matcher.    *)
(***************************************************************************)
Min(x, y) == IF x <= y THEN x ELSE y
Max(x, y) == IF x >= y THEN x ELSE y

\* Number(...) of a token that is not numeric; `NaN || 0` is 0.
NaN == -1

DigitChars == <<"0", "1", "2", "3", "4", "5", "6", "7", "8", "9">>

IsDigit(c) == \E i \in 1..Len(DigitChars) : DigitChars[i] = c

DigitVal(c) == (CHOOSE i \in 1..Len(DigitChars) : DigitChars[i] = c) - 1

\* String.prototype.split('.') with the token read so far in cur.
RECURSIVE splitFrom(_, _)
splitFrom(s, cur) ==
    IF s = <<>> THEN <<cur>>
    ELSE IF Head(s) = "." THEN <<cur>> \o splitFrom(Tail(s), <<>>)
    ELSE splitFrom(Tail(s), Append(cur, Head(s)))

split(s) == splitFrom(s, <<>>)

RECURSIVE digitsValue(_, _)
digitsValue(tok, acc) ==
    IF tok = <<>> THEN acc
    ELSE digitsValue(Tail(tok), acc * 10 + DigitVal(Head(tok)))

\* Number(token): "" is 0, a run of digits is its decimal value, else NaN.
Number(tok) ==
    IF tok = <<>> THEN 0
    ELSE IF \A i \in 1..Len(tok) : IsDigit(tok[i]) THEN digitsValue(tok, 0)
    ELSE NaN

\* String(n) as join prints a number: decimal digits, or "NaN".
RECURSIVE numberToString(_)
numberToString(n) ==
    IF n = NaN THEN <<"N", "a", "N">>
    ELSE IF n < 10 THEN <<DigitChars[n + 1]>>
    ELSE numberToString(n \div 10) \o <<DigitChars[(n % 10) + 1]>>

\* Array.prototype.join('.') of an array of numbers.
RECURSIVE join(_)
join(parts) ==
    IF parts = <<>> THEN <<>>
    ELSE IF Len(parts) = 1 THEN numberToString(parts[1])
    ELSE numberToString(parts[1]) \o <<".">> \o join(Tail(parts))

\* version.replace(/[^0-9.]/g, ''): keep digits and dots only.
RECURSIVE sanitize(_)
sanitize(s) ==
    IF s = <<>> THEN <<>>
    ELSE IF IsDigit(Head(s)) \/ Head(s) = "." THEN <<Head(s)>> \o sanitize(Tail(s))
    ELSE sanitize(Tail(s))

\* aParts[i] || 0: an index past the end, NaN and 0 all give 0.
partOrZero(parts, i) ==
    IF i > Len(parts) THEN 0
    ELSE IF parts[i] = NaN THEN 0
    ELSE parts[i]

\* An optional string field: <<>> when absent, <<s>> when present.
Absent == <<>>
Some(s) == <<s>>
\* JavaScript truthiness of an optional string: undefined and "" are falsy.
Truthy(opt) == opt # <<>> /\ opt[1] # <<>>

(***************************************************************************)
(* Scanner.compareVersions and Scanner.isVersionInRange.                    *)
(***************************************************************************)
RECURSIVE compareFrom(_, _, _)
compareFrom(aParts, bParts, i) ==
    IF i > Max(Len(aParts), Len(bParts)) THEN 0
    ELSE IF partOrZero(aParts, i) # partOrZero(bParts, i)
         THEN partOrZero(aParts, i) - partOrZero(bParts, i)
    ELSE compareFrom(aParts, bParts, i + 1)

compareVersions(a, b) ==
    LET aParts == [i \in 1..Len(split(a)) |-> Number(split(a)[i])]
        bParts == [i \in 1..Len(split(b)) |-> Number(split(b)[i])]
    IN compareFrom(aParts, bParts, 1)

\* rangeMatches with the upper bound taken as inclusive.
rangeMatchesInclusive(normalizedVersion, range) ==
    IF Truthy(range.atOrAbove) /\ compareVersions(normalizedVersion, range.atOrAbove[1]) < 0
        THEN FALSE
    ELSE IF Truthy(range.below) /\ compareVersions(normalizedVersion, range.below[1]) > 0
        THEN FALSE
    ELSE TRUE

\* The predicate isVersionInRange hands to ranges.some.
rangeMatches(normalizedVersion, range) ==
    IF Truthy(range.atOrAbove) /\ compareVersions(normalizedVersion, range.atOrAbove[1]) < 0
        THEN FALSE
    ELSE IF Truthy(range.below) /\ compareVersions(normalizedVersion, range.below[1]) >= 0
        THEN FALSE
    ELSE TRUE

normalizeVersion(version) ==
    LET parts == [i \in 1..Len(split(version)) |-> Number(split(version)[i])]
    IN join(SubSeq(parts, 1, Min(3, Len(parts))))

isVersionInRange(version, ranges) ==
    IF ranges = <<>> THEN FALSE
    ELSE \E i \in 1..Len(ranges) : rangeMatches(normalizeVersion(version), ranges[i])

(***************************************************************************)
(* Scanner.scanDependencies.                                                *)
(***************************************************************************)
\* Concatenation of a sequence of sequences (push(...xs) in a loop).
RECURSIVE flat(_)
flat(seqs) == IF seqs = <<>> THEN <<>> ELSE Head(seqs) \o flat(Tail(seqs))

\* A finding of the dependency scan: {packageName, version, vulnerability}.
dependencyFinding(pkg, version, vuln) ==
    [packageName |-> pkg, version |-> version, filePath |-> "",
     severity |-> vuln.severity]

\* A finding of the source scan: {filePath, vulnerability: {severity, ...}}.
sourceFinding(filePath, severity) ==
    [packageName |-> "", version |-> <<>>, filePath |-> filePath,
     severity |-> severity]

\* this.vulnerabilityDB.get(pkg), then vulnInfo && vulnInfo.vulnerabilities.
recordsOf(db, pkg) ==
    IF pkg \in DOMAIN db THEN db[pkg].vulnerabilities ELSE <<>>

\* The forEach over the package's records for one manifest entry.
matchRecords(db, dep) ==
    LET cleanVersion == sanitize(dep.version)
        records == recordsOf(db, dep.pkg)
    IN flat([i \in 1..Len(records) |->
                IF isVersionInRange(cleanVersion, records[i].ranges)
                THEN <<dependencyFinding(dep.pkg, dep.version, records[i])>>
                ELSE <<>>])

\* The isVersionInRange calls that forEach makes, with their results.
callsOf(db, dep) ==
    LET cleanVersion == sanitize(dep.version)
        records == recordsOf(db, dep.pkg)
    IN [i \in 1..Len(records) |->
            [version |-> cleanVersion, ranges |-> records[i].ranges,
             result |-> isVersionInRange(cleanVersion, records[i].ranges)]]

\* fs.existsSync(node_modules/<pkg>), then scanProjectFiles over it: modules
\* maps each existing module directory to the findings its files yield.
moduleFindings(modules, pkg) ==
    IF pkg \in DOMAIN modules THEN modules[pkg] ELSE <<>>

RECURSIVE scanDependencies(_, _, _, _)
scanDependencies(db, modules, deps, found) ==
    IF deps = <<>> THEN found
    ELSE scanDependencies(db, modules, Tail(deps),
            found \o matchRecords(db, Head(deps))
                  \o moduleFindings(modules, Head(deps).pkg))

(***************************************************************************)
(* Inputs of the dependency scan.                                           *)
(***************************************************************************)
\* slice(0, 3): a version has at most three significant components.
VersionParts == 3

\* Components with more than one digit, beside 0..MaxComp.
ExtraTuples == {<<10>>, <<0, 10>>}

TuplesOfLen(n) == [1..n -> 0..MaxComp]

\* Bounds of a range are versions of one to three components.
BoundTuples == UNION {TuplesOfLen(n) : n \in 1..VersionParts} \cup ExtraTuples

\* A manifest may name a fourth component; slice drops it.
VersionTuples == BoundTuples \cup TuplesOfLen(VersionParts + 1)

BoundStrings == {join(t) : t \in BoundTuples}

\* Version specs that are not plain versions.
RawSpecs ==
    { <<"l", "a", "t", "e", "s", "t">>,
      <<"*">>,
      <<"^", "1", ".", "0", ".", "1">>,
      <<"~", "0", ".", "1">> }

DepSpecs == {join(t) : t \in VersionTuples} \cup RawSpecs

OptBounds == {Absent} \cup {Some(s) : s \in BoundStrings}

Ranges == [atOrAbove : OptBounds, below : OptBounds]

NoBounds == [atOrAbove |-> Absent, below |-> Absent]

\* vuln.ranges: undefined or empty, one range, or a few lists of two.
RangeLists ==
    {<<>>} \cup {<<r>> : r \in Ranges}
    \cup {<<NoBounds, NoBounds>>}
    \cup {<<NoBounds, [atOrAbove |-> Some(<<"1">>), below |-> Absent]>>,
          <<[atOrAbove |-> Absent, below |-> Some(<<"0", ".", "1">>)],
            [atOrAbove |-> Some(<<"1">>), below |-> Some(<<"1", ".", "1">>)]>>}

Severities == {"low", "medium", "high", "critical"}

dbWith(pkg, severity, ranges) ==
    (pkg :> [vulnerabilities |-> <<[severity |-> severity, ranges |-> ranges]>>])

NoModules == [p \in {} |-> <<>>]

InitDep ==
    /\ depPc = "ready"
    /\ vulnerabilities = <<>>
    /\ lastCall = <<>>
    /\ \/ \* one dependency with one database record
          /\ \E rl \in RangeLists : vulnerabilityDB = dbWith("jquery", "medium", rl)
          /\ \E v \in DepSpecs : dependencies = <<[pkg |-> "jquery", version |-> v]>>
          /\ nodeModules = NoModules
       \/ \* a dependency the database does not know, installed or not
          /\ \E rl \in {<<>>, <<NoBounds>>} : vulnerabilityDB = dbWith("jquery", "high", rl)
          /\ \E v \in RawSpecs :
                dependencies = <<[pkg |-> "lodash", version |-> v],
                                 [pkg |-> "jquery", version |-> v]>>
          /\ nodeModules \in {NoModules,
                              ("lodash" :> <<sourceFinding("node_modules/lodash/a.js", "low")>>)}
       \/ \* no dependencies field in the manifest
          /\ vulnerabilityDB = dbWith("jquery", "low", <<NoBounds>>)
          /\ dependencies = <<>>
          /\ nodeModules = NoModules

\* scanDependencies(dependencies, vulnerabilities), part_004:519-547.
ScanDependencies ==
    /\ depPc = "ready"
    /\ vulnerabilities' = scanDependencies(vulnerabilityDB, nodeModules, dependencies, vulnerabilities)
    /\ lastCall' = flat([i \in 1..Len(dependencies) |-> callsOf(vulnerabilityDB, dependencies[i])])
    /\ depPc' = "done"
    /\ UNCHANGED <<vulnerabilityDB, dependencies, nodeModules>>
    /\ UNCHANGED notDep


(***************************************************************************)
(* Claims about the version matcher and the dependency scan (SpecDep).      *)
(***************************************************************************)
\* The (major, minor, patch) 3-tuple of a component list: the first three
\* components, missing ones taken as 0.
tuple3(t) == [i \in 1..VersionParts |-> IF i <= Len(t) THEN t[i] ELSE 0]

\* Each generated version string with the 3-tuple it was written from.
VersionTable == {<<join(t), tuple3(t)>> : t \in VersionTuples}

IsVersion(s) == \E p \in VersionTable : p[1] = s

tupleOf(s) == (CHOOSE p \in VersionTable : p[1] = s)[2]

tupleLess(s, t) ==
    \/ s[1] < t[1]
    \/ s[1] = t[1] /\ s[2] < t[2]
    \/ s[1] = t[1] /\ s[2] = t[2] /\ s[3] < t[3]

tupleLessEq(s, t) == s = t \/ tupleLess(s, t)

\* A call of isVersionInRange with one range that has both bounds.
BothBoundsCall(c) ==
    /\ Len(c.ranges) = 1
    /\ c.ranges[1].atOrAbove # Absent
    /\ c.ranges[1].below # Absent
    /\ IsVersion(c.version)

NoBoundCall(c) ==
    /\ c.ranges # <<>>
    /\ \A i \in 1..Len(c.ranges) : c.ranges[i] = NoBounds

\* C9: isVersionInRange returns false for every version when each supplied
\* range has neither an atOrAbove nor a below bound.
C9_NoBoundMatchesNothing ==
    \A k \in 1..Len(lastCall) : NoBoundCall(lastCall[k]) => lastCall[k].result = FALSE

\* A version spec that contains no digit (latest, *).
NoDigits(version) == \A i \in 1..Len(version) : ~IsDigit(version[i])

\* C10: a dependency whose version spec contains no digits never produces a
\* finding from scanDependencies, whatever the record's ranges are.
\* It is stated here for the records whose ranges all carry a bound, so that
\* a violation does not rest on what a range without bounds matches (C9).
C10_UnparseableNotVulnerable ==
    depPc = "done" =>
        \A d \in 1..Len(dependencies) :
            LET dep == dependencies[d]
                records == recordsOf(vulnerabilityDB, dep.pkg)
            IN NoDigits(dep.version) =>
                \A r \in 1..Len(records) :
                    (\A i \in 1..Len(records[r].ranges) : records[r].ranges[i] # NoBounds) =>
                        \A k \in 1..Len(vulnerabilities) :
                            vulnerabilities[k] # dependencyFinding(dep.pkg, dep.version, records[r])

(***************************************************************************)
(* The AST of a scanned file, reduced to the node kinds the data-flow pass  *)
(* and getNodeId look at.                                                   *)
(***************************************************************************)
Identifier(name) == [type |-> "Identifier", name |-> name]

\* object.property
MemberExpression(object, property) ==
    [type |-> "MemberExpression", object |-> object, property |-> property,
     computed |-> FALSE]

\* object[property]
ComputedMemberExpression(object, property) ==
    [type |-> "MemberExpression", object |-> object, property |-> property,
     computed |-> TRUE]

Literal == [type |-> "Literal"]

AssignmentExpression(left, right) ==
    [type |-> "AssignmentExpression", left |-> left, right |-> right]

\* init is <<>> for a declarator without initializer, <<node>> otherwise.
VariableDeclarator(id, init) ==
    [type |-> "VariableDeclarator", id |-> id, init |-> init]

CallExpression(callee, arguments) ==
    [type |-> "CallExpression", callee |-> callee, arguments |-> arguments]

\* traverse(ast, {enter}): the nodes in the order enter sees them.
RECURSIVE nodesOf(_)
nodesOf(node) ==
    CASE node.type = "AssignmentExpression" ->
            <<node>> \o nodesOf(node.left) \o nodesOf(node.right)
      [] node.type = "VariableDeclarator" ->
            <<node>> \o nodesOf(node.id)
                     \o (IF node.init = <<>> THEN <<>> ELSE nodesOf(node.init[1]))
      [] node.type = "CallExpression" ->
            <<node>> \o nodesOf(node.callee)
                     \o flat([i \in 1..Len(node.arguments) |-> nodesOf(node.arguments[i])])
      [] node.type = "MemberExpression" ->
            <<node>> \o nodesOf(node.object) \o nodesOf(node.property)
      [] OTHER -> <<node>>

programNodes(body) == flat([i \in 1..Len(body) |-> nodesOf(body[i])])

\* Scanner.getNodeId: a flow-node-id is a list of names (printed joined by
\* dots); <<>> is undefined.
RECURSIVE getNodeId(_)
getNodeId(node) ==
    CASE node.type = "Identifier" -> <<node.name>>
      [] node.type = "MemberExpression" ->
            LET obj == getNodeId(node.object)
                prop == getNodeId(node.property)
            IN IF obj # <<>> /\ prop # <<>> THEN obj \o prop ELSE <<>>
      [] OTHER -> <<>>

(***************************************************************************)
(* Scanner.dataFlowGraph: a Map, kept as its entries in insertion order.    *)
(***************************************************************************)
mapHas(m, id) == \E i \in 1..Len(m) : m[i].id = id

mapGet(m, id) == m[CHOOSE i \in 1..Len(m) : m[i].id = id].flow

\* Map.prototype.set: an existing key keeps its place and gets the new value.
mapSet(m, id, flow) ==
    IF mapHas(m, id)
    THEN [i \in 1..Len(m) |-> IF m[i].id = id THEN [id |-> id, flow |-> flow] ELSE m[i]]
    ELSE Append(m, [id |-> id, flow |-> flow])

DataFlow(type, source, arguments) ==
    [type |-> type, source |-> source, arguments |-> arguments]

trackAssignment(graph, node) ==
    LET targetId == getNodeId(node.left)
        sourceId == getNodeId(node.right)
    IN IF targetId # <<>> /\ sourceId # <<>>
       THEN mapSet(graph, targetId, DataFlow("assignment", sourceId, <<>>))
       ELSE graph

trackVariableDeclaration(graph, node) ==
    LET targetId == getNodeId(node.id)
        sourceId == IF node.init # <<>> THEN getNodeId(node.init[1]) ELSE <<>>
    IN IF targetId # <<>> /\ sourceId # <<>>
       THEN mapSet(graph, targetId, DataFlow("declaration", sourceId, <<>>))
       ELSE graph

\* arguments.map(getNodeId).filter(defined)
argumentIds(arguments) ==
    flat([i \in 1..Len(arguments) |->
            IF getNodeId(arguments[i]) # <<>> THEN <<getNodeId(arguments[i])>> ELSE <<>>])

trackFunctionCall(graph, node) ==
    LET callId == getNodeId(node)
    IN IF callId # <<>>
       THEN mapSet(graph, callId,
                   DataFlow("call", getNodeId(node.callee), argumentIds(node.arguments)))
       ELSE graph

\* The enter callback of buildDataFlowGraph for one node.
trackNode(graph, node) ==
    CASE node.type = "AssignmentExpression" -> trackAssignment(graph, node)
      [] node.type = "VariableDeclarator" -> trackVariableDeclaration(graph, node)
      [] node.type = "CallExpression" -> trackFunctionCall(graph, node)
      [] OTHER -> graph

RECURSIVE trackAll(_, _)
trackAll(graph, nodes) ==
    IF nodes = <<>> THEN graph
    ELSE trackAll(trackNode(graph, Head(nodes)), Tail(nodes))

\* dataFlowGraph.clear() followed by buildDataFlowGraph(ast).
buildDataFlowGraph(body) == trackAll(<<>>, programNodes(body))

(***************************************************************************)
(* analyzeDataFlow, getDataFlowSources and findDataFlowSinks, one call or   *)
(* return of the recursion per step, on an explicit call stack.             *)
(***************************************************************************)
\* [...new Set(xs)]: first occurrences, in order.
RECURSIVE dedup(_)
dedup(xs) ==
    IF xs = <<>> THEN <<>>
    ELSE LET init == dedup(SubSeq(xs, 1, Len(xs) - 1))
             last == xs[Len(xs)]
         IN IF \E i \in 1..Len(init) : init[i] = last THEN init ELSE Append(init, last)

\* A frame of getDataFlowSources(flow): pos is "entry" before the body ran,
\* "called" while the recursive call runs, "return" at the return statement.
sourcesFrame(flow) ==
    [fn |-> "getDataFlowSources", flow |-> flow, nodeId |-> <<>>,
     idx |-> 0, acc |-> <<>>, pos |-> "entry"]

\* A frame of findDataFlowSinks(nodeId): idx is the Map entry the for-loop
\* looks at next.
sinksFrame(nodeId) ==
    [fn |-> "findDataFlowSinks", flow |-> DataFlow("", <<>>, <<>>), nodeId |-> nodeId,
     idx |-> 1, acc |-> <<>>, pos |-> "entry"]

top == stack[Len(stack)]

replaceTop(frame) == [stack EXCEPT ![Len(stack)] = frame]

\* flow.source === nodeId || flow.arguments?.includes(nodeId)
flowsFrom(flow, nodeId) ==
    \/ flow.source = nodeId
    \/ \E i \in 1..Len(flow.arguments) : flow.arguments[i] = nodeId

\* The first entry at or after idx that the for-loop of findDataFlowSinks
\* collects, or Len(graph) + 1.
RECURSIVE nextSink(_, _, _)
nextSink(graph, nodeId, idx) ==
    IF idx > Len(graph) THEN idx
    ELSE IF flowsFrom(graph[idx].flow, nodeId) THEN idx
    ELSE nextSink(graph, nodeId, idx + 1)

\* The body of a file: an expression statement or a declaration each.
FlowNames == {"a", "b"}

FlowTargets == {Identifier(n) : n \in FlowNames}
                \cup {MemberExpression(Identifier("o"), Identifier("p"))}

Statements ==
    {AssignmentExpression(l, r) : l \in FlowTargets, r \in FlowTargets}
    \cup {AssignmentExpression(Identifier("a"), Literal),
          VariableDeclarator(Identifier("b"), <<Identifier("a")>>),
          VariableDeclarator(Identifier("a"), <<>>),
          CallExpression(Identifier("f"), <<Identifier("a")>>),
          \* a[b] = a and o.p.q = a
          AssignmentExpression(ComputedMemberExpression(Identifier("a"), Identifier("b")),
                               Identifier("a")),
          AssignmentExpression(
              MemberExpression(MemberExpression(Identifier("o"), Identifier("p")),
                               Identifier("q")),
              Identifier("a"))}

Bodies == UNION {[1..n -> Statements] : n \in 1..MaxStmts}

InitFlow ==
    /\ ast \in Bodies
    /\ dataFlowGraph = <<>>
    /\ flowPc = "parsed"
    /\ query = <<>>
    /\ stack = <<>>
    /\ flowResult = [sources |-> <<>>, sinks |-> <<>>]

\* scanSourceFile, part_004:134-140: clear the graph, then build it.
BuildDataFlowGraph ==
    /\ flowPc = "parsed"
    /\ dataFlowGraph' = buildDataFlowGraph(ast)
    /\ flowPc' = "built"
    /\ UNCHANGED <<ast, query, stack, flowResult>>
    /\ UNCHANGED notFlow

\* analyzeDataFlow(node) for a node a rule matched: matchesPattern matches
\* call, member and assignment nodes only, and of these only a member
\* expression has a flow-node-id. The sources query starts.
AnalyzeDataFlow ==
    /\ flowPc = "built"
    /\ \E k \in 1..Len(programNodes(ast)) :
        LET node == programNodes(ast)[k]
            nodeId == getNodeId(node)
        IN /\ node.type \in {"CallExpression", "MemberExpression", "AssignmentExpression"}
           /\ nodeId # <<>>
           /\ mapHas(dataFlowGraph, nodeId)
           /\ query' = nodeId
           /\ stack' = <<sourcesFrame(mapGet(dataFlowGraph, nodeId))>>
    /\ flowPc' = "sources"
    /\ UNCHANGED <<ast, dataFlowGraph, flowResult>>
    /\ UNCHANGED notFlow

\* findDataFlowSinks(nodeId) called on its own, for any key of the graph.
FindDataFlowSinks ==
    /\ flowPc = "built"
    /\ \E i \in 1..Len(dataFlowGraph) :
        /\ query' = dataFlowGraph[i].id
        /\ stack' = <<sinksFrame(dataFlowGraph[i].id)>>
    /\ flowPc' = "sinks"
    /\ UNCHANGED <<ast, dataFlowGraph, flowResult>>
    /\ UNCHANGED notFlow

\* getDataFlowSources, part_004:497-504: push flow.source and, when that id
\* has an edge of its own, call getDataFlowSources on it.
SourcesCall ==
    /\ flowPc = "sources"
    /\ top.fn = "getDataFlowSources" /\ top.pos = "entry"
    /\ IF top.flow.source = <<>>
       THEN /\ stack' = replaceTop([top EXCEPT !.pos = "return"])
            /\ flowPc' = flowPc
       ELSE IF ~mapHas(dataFlowGraph, top.flow.source)
       THEN /\ stack' = replaceTop([top EXCEPT !.acc = <<top.flow.source>>, !.pos = "return"])
            /\ flowPc' = flowPc
       ELSE IF Len(stack) >= MaxStack
       THEN /\ stack' = stack
            /\ flowPc' = "overflow"
       ELSE /\ stack' = Append(replaceTop([top EXCEPT !.acc = <<top.flow.source>>, !.pos = "called"]),
                               sourcesFrame(mapGet(dataFlowGraph, top.flow.source)))
            /\ flowPc' = flowPc
    /\ UNCHANGED <<ast, dataFlowGraph, query, flowResult>>
    /\ UNCHANGED notFlow

\* getDataFlowSources, part_004:502 and 505: return [...new Set(sources)] to
\* the caller, which pushes it; the outermost caller is analyzeDataFlow,
\* which goes on to findDataFlowSinks(nodeId).
SourcesReturn ==
    /\ flowPc = "sources"
    /\ top.fn = "getDataFlowSources" /\ top.pos = "return"
    /\ LET result == dedup(top.acc)
           rest == SubSeq(stack, 1, Len(stack) - 1)
       IN IF rest = <<>>
          THEN /\ flowResult' = [flowResult EXCEPT !.sources = result]
               /\ stack' = <<sinksFrame(query)>>
               /\ flowPc' = "sinks"
          ELSE /\ stack' = [rest EXCEPT ![Len(rest)] =
                                [@ EXCEPT !.acc = @ \o result, !.pos = "return"]]
               /\ UNCHANGED <<flowResult, flowPc>>
    /\ UNCHANGED <<ast, dataFlowGraph, query>>
    /\ UNCHANGED notFlow

\* findDataFlowSinks, part_004:510-514: the for-loop up to and including the
\* next collected entry, and the recursive call on its id.
SinksCall ==
    /\ flowPc = "sinks"
    /\ top.fn = "findDataFlowSinks"
    /\ LET k == nextSink(dataFlowGraph, top.nodeId, top.idx)
       IN /\ k <= Len(dataFlowGraph)
          /\ IF Len(stack) >= MaxStack
             THEN /\ stack' = stack
                  /\ flowPc' = "overflow"
             ELSE /\ stack' = Append(replaceTop([top EXCEPT !.idx = k + 1,
                                                             !.acc = Append(@, dataFlowGraph[k].id)]),
                                     sinksFrame(dataFlowGraph[k].id))
                  /\ flowPc' = flowPc
    /\ UNCHANGED <<ast, dataFlowGraph, query, flowResult>>
    /\ UNCHANGED notFlow

\* findDataFlowSinks, part_004:513 and 516: the loop is over; return
\* [...new Set(sinks)] to the caller, which pushes it.
SinksReturn ==
    /\ flowPc = "sinks"
    /\ top.fn = "findDataFlowSinks"
    /\ nextSink(dataFlowGraph, top.nodeId, top.idx) > Len(dataFlowGraph)
    /\ LET result == dedup(top.acc)
           rest == SubSeq(stack, 1, Len(stack) - 1)
       IN IF rest = <<>>
          THEN /\ flowResult' = [flowResult EXCEPT !.sinks = result]
               /\ stack' = <<>>
               /\ flowPc' = "done"
          ELSE /\ stack' = [rest EXCEPT ![Len(rest)] = [@ EXCEPT !.acc = @ \o result]]
               /\ UNCHANGED <<flowResult, flowPc>>
    /\ UNCHANGED <<ast, dataFlowGraph, query>>
    /\ UNCHANGED notFlow

(***************************************************************************)
(* Claims about the data-flow queries (SpecFlow).                           *)
(***************************************************************************)
NoDuplicates(xs) == \A i, j \in 1..Len(xs) : xs[i] = xs[j] => i = j

\* The source ids the running sources query has followed so far, one per
\* frame that made the recursive call.
followedSources ==
    flat([i \in 1..Len(stack) |->
            IF stack[i].fn = "getDataFlowSources" /\ stack[i].pos = "called"
            THEN <<stack[i].flow.source>> ELSE <<>>])

\* The ids the running sinks query is inside of, outermost first.
activeSinks ==
    flat([i \in 1..Len(stack) |->
            IF stack[i].fn = "findDataFlowSinks" THEN <<stack[i].nodeId>> ELSE <<>>])

\* C5: the sources query reached through analyzeDataFlow terminates on
\* every per-file graph, cyclic ones included: it never follows a source id
\* it has already followed, so it never exhausts the call stack, and the
\* list it returns is duplicate-free.
C5_SourcesQueryGuarded ==
    /\ NoDuplicates(followedSources)
    /\ ~(flowPc = "overflow" /\ top.fn = "getDataFlowSources")
    /\ NoDuplicates(flowResult.sources)

\* The ids that flow from id in one step.
directSinks(graph, id) ==
    {graph[i].id : i \in {j \in 1..Len(graph) : flowsFrom(graph[j].flow, id)}}

RECURSIVE sinkClosure(_, _)
sinkClosure(graph, ids) ==
    LET more == ids \cup UNION {directSinks(graph, id) : id \in ids}
    IN IF more = ids THEN ids ELSE sinkClosure(graph, more)

\* C6: the sinks query terminates on every per-file graph, cyclic ones
\* included: it never enters an id it is already inside of, so it never
\* exhausts the call stack; it returns the duplicate-free set of ids whose
\* edge has the queried id as source or argument, closed transitively.
C6_SinksQueryGuarded ==
    /\ NoDuplicates(activeSinks)
    /\ ~(flowPc = "overflow" /\ top.fn = "findDataFlowSinks")
    /\ flowPc = "done" =>
        /\ NoDuplicates(flowResult.sinks)
        /\ {flowResult.sinks[i] : i \in 1..Len(flowResult.sinks)}
              = sinkClosure(dataFlowGraph, directSinks(dataFlowGraph, query))

(***************************************************************************)
(* scanSourceFile on one Scanner, several calls in flight: each call awaits *)
(* readFile, and everything after that await (parse, clear, build, the      *)
(* analysing traversal, filter) runs in one turn of the event loop.         *)
(***************************************************************************)
\* The graph the analysing traversal sees, were the graph not cleared.
graphForAnalysisKeepsEdges(graph, body, enabled) ==
    IF enabled THEN trackAll(graph, programNodes(body)) ELSE graph

\* part_004:134-140: dataFlowGraph.clear(), then buildDataFlowGraph(ast) if
\* options.enableDataFlow: the graph the analysing traversal sees.
graphForAnalysis(graph, body, enabled) ==
    IF enabled THEN trackAll(<<>>, programNodes(body)) ELSE <<>>

\* The files a watcher reports: content that does not parse, or a body.
WatchFiles ==
    {[parses |-> FALSE, body |-> <<>>],
     [parses |-> TRUE,
      body |-> <<AssignmentExpression(Identifier("a"), Identifier("b")),
                 AssignmentExpression(Identifier("a"),
                                      MemberExpression(Identifier("o"), Identifier("p")))>>],
     [parses |-> TRUE,
      body |-> <<VariableDeclarator(Identifier("b"), <<Identifier("a")>>),
                 AssignmentExpression(MemberExpression(Identifier("o"), Identifier("p")),
                                      Identifier("b"))>>],
     [parses |-> TRUE,
      body |-> <<CallExpression(Identifier("f"), <<Identifier("a")>>)>>]}

InitWatch ==
    /\ inFlight = [c \in 1..MaxCalls |-> <<>>]
    /\ enableDataFlow \in BOOLEAN
    /\ analysed = <<>>

\* handleFileChange -> scanSourceFile(filePath), part_004:659-668 and
\* 123-125, up to `await fs.promises.readFile`.
HandleFileChange(c) ==
    /\ inFlight[c] = <<>>
    /\ \E file \in WatchFiles : inFlight' = [inFlight EXCEPT ![c] = <<file>>]
    /\ UNCHANGED <<enableDataFlow, analysed, dataFlowGraph>>
    /\ UNCHANGED notWatch

\* scanSourceFile after the await, part_004:126-155: parse (a throw goes to
\* the catch block, which returns [] and leaves the graph), clear and build
\* the graph, analyse every node, return.
ReadFileResolves(c) ==
    /\ inFlight[c] # <<>>
    /\ LET file == inFlight[c][1]
           graph == graphForAnalysis(dataFlowGraph, file.body, enableDataFlow)
       IN IF file.parses
          THEN /\ dataFlowGraph' = graph
               /\ analysed' = <<[file |-> file, graph |-> graph]>>
          ELSE UNCHANGED <<dataFlowGraph, analysed>>
    /\ inFlight' = [inFlight EXCEPT ![c] = <<>>]
    /\ UNCHANGED enableDataFlow
    /\ UNCHANGED notWatch

\* enableDataFlowAnalysis(enable), part_004:794-796.
EnableDataFlowAnalysis ==
    /\ enableDataFlow' = ~enableDataFlow
    /\ UNCHANGED <<inFlight, analysed, dataFlowGraph>>
    /\ UNCHANGED notWatch

NextWatch ==
    \/ \E c \in 1..MaxCalls : HandleFileChange(c)
    \/ \E c \in 1..MaxCalls : ReadFileResolves(c)
    \/ EnableDataFlowAnalysis

\* The node writes a flow-node-id from a source that has an id.
isWrite(node) ==
    \/ /\ node.type = "AssignmentExpression"
       /\ getNodeId(node.left) # <<>>
       /\ getNodeId(node.right) # <<>>
    \/ /\ node.type = "VariableDeclarator"
       /\ getNodeId(node.id) # <<>>
       /\ node.init # <<>>
       /\ getNodeId(node.init[1]) # <<>>

\* The edge a writing node stands for.
edgeOf(node) ==
    IF node.type = "AssignmentExpression"
    THEN [id |-> getNodeId(node.left),
          flow |-> DataFlow("assignment", getNodeId(node.right), <<>>)]
    ELSE [id |-> getNodeId(node.id),
          flow |-> DataFlow("declaration", getNodeId(node.init[1]), <<>>)]

\* The positions of the writes in the traversal order of body.
writesOf(body) == {k \in 1..Len(programNodes(body)) : isWrite(programNodes(body)[k])}

\* The edges of the writes of body that no later write of the same id follows.
lastWrites(body) ==
    LET nodes == programNodes(body) IN
    {edgeOf(nodes[k]) : k \in {j \in writesOf(body) :
        \A later \in writesOf(body) :
            later > j => edgeOf(nodes[later]).id # edgeOf(nodes[j]).id}}

\* The step is call c running from its await to its return on a file that
\* parses: the analysis of that file.
analysisStep(c) == inFlight[c] # <<>> /\ inFlight'[c] = <<>> /\ inFlight[c][1].parses

\* C24: whenever the analysis of a file F runs, the graph holds only edges
\* of F's AST, one per flow-node-id, the last assignment or declaration of it
\* in traversal order (all of them when data flow is enabled), whatever
\* calls came before and whatever calls are in flight.
C24_GraphIsPerFile ==
    [][\A c \in 1..MaxCalls : analysisStep(c) =>
        LET F == inFlight[c][1].body
            edges == {dataFlowGraph'[i] : i \in 1..Len(dataFlowGraph')}
        IN /\ analysed' = <<[file |-> inFlight[c][1], graph |-> dataFlowGraph']>>
           /\ edges \subseteq lastWrites(F)
           /\ enableDataFlow => edges = lastWrites(F)
           /\ \A i, j \in 1..Len(dataFlowGraph') :
                dataFlowGraph'[i].id = dataFlowGraph'[j].id => i = j
      ]_vars

\* A file was analysed with its own two edges in the graph while another
\* call, for another file that parses, was in flight.
C24_Witness ==
    /\ analysed # <<>>
    /\ Len(analysed[1].graph) = 2
    /\ analysed[1].graph = dataFlowGraph
    /\ \E c \in 1..MaxCalls :
        /\ inFlight[c] # <<>>
        /\ inFlight[c][1].parses
        /\ inFlight[c][1] # analysed[1].file

\* The flow-node-id by the stated rule: the name of an identifier, object
\* and property of a non-computed member access of two bare identifiers,
\* none otherwise.
statedNodeId(node) ==
    IF node.type = "Identifier" THEN <<node.name>>
    ELSE IF /\ node.type = "MemberExpression"
            /\ ~node.computed
            /\ node.object.type = "Identifier"
            /\ node.property.type = "Identifier"
         THEN <<node.object.name, node.property.name>>
    ELSE <<>>

\* The ids the stated rule gives to the nodes of the file.
statedIds == {statedNodeId(programNodes(ast)[k]) : k \in 1..Len(programNodes(ast))}

\* C22: getNodeId gives an identifier its name, a non-computed member access
\* of two bare identifiers `object.property`, and no id to any other node;
\* a computed access a[b] and a chain a.b.c have no id and are neither key
\* nor source of an edge of the graph.
C22_NodeIdRule ==
    flowPc = "built" =>
        /\ \A k \in 1..Len(programNodes(ast)) :
                getNodeId(programNodes(ast)[k]) = statedNodeId(programNodes(ast)[k])
        /\ \A i \in 1..Len(dataFlowGraph) :
                /\ dataFlowGraph[i].id \in statedIds \ {<<>>}
                /\ dataFlowGraph[i].flow.source \in statedIds

\* The statements of the file that are calls f(x) of a bare identifier with
\* one bare identifier as argument.
simpleCalls ==
    {k \in 1..Len(ast) :
        /\ ast[k].type = "CallExpression"
        /\ ast[k].callee.type = "Identifier"
        /\ Len(ast[k].arguments) = 1
        /\ ast[k].arguments[1].type = "Identifier"}

\* C23: after buildDataFlowGraph over a file with a call f(x), the graph
\* holds a call edge with callee f and x among its arguments, so that x has
\* that call among its direct sinks.
C23_CallEdgeRecorded ==
    flowPc = "built" =>
        \A k \in simpleCalls :
            \E i \in 1..Len(dataFlowGraph) :
                /\ dataFlowGraph[i].flow.type = "call"
                /\ dataFlowGraph[i].flow.source = <<ast[k].callee.name>>
                /\ flowsFrom(dataFlowGraph[i].flow, <<ast[k].arguments[1].name>>)
                /\ dataFlowGraph[i].id
                        \in directSinks(dataFlowGraph, <<ast[k].arguments[1].name>>)

(***************************************************************************)
(* Scanner.filterBySeverity and the result of Scanner.scanSourceFile.       *)
(***************************************************************************)
severityLevels == <<"low", "medium", "high", "critical">>

\* Array.prototype.indexOf, zero-based, -1 when absent.
indexOf(arr, x) ==
    IF \E i \in 1..Len(arr) : arr[i] = x
    THEN (CHOOSE i \in 1..Len(arr) : arr[i] = x /\ \A j \in 1..(i - 1) : arr[j] # x) - 1
    ELSE -1

\* The same predicate with a strict comparison.
passesSeverityStrict(result, minimum) ==
    indexOf(severityLevels, result.severity) > indexOf(severityLevels, minimum)

\* The predicate filterBySeverity hands to results.filter.
passesSeverity(result, minimum) ==
    indexOf(severityLevels, result.severity) >= indexOf(severityLevels, minimum)

RECURSIVE filterBySeverity(_, _)
filterBySeverity(found, minimum) ==
    IF found = <<>> THEN <<>>
    ELSE IF passesSeverity(Head(found), minimum)
         THEN <<Head(found)>> \o filterBySeverity(Tail(found), minimum)
         ELSE filterBySeverity(Tail(found), minimum)

\* A source file of the project: bad when it cannot be read or parsed;
\* found lists the severities of the rules that match in it, in document
\* order. What analyzeNode pushes for it:
rawFindings(file) ==
    [i \in 1..Len(file.found) |-> sourceFinding(file.path, file.found[i])]

\* What scanSourceFile(file.path) resolves to: [] from the catch block for a
\* bad file, the filtered findings otherwise. It never rejects.
scanSourceFile(file, minimum) ==
    IF file.bad THEN <<>> ELSE filterBySeverity(rawFindings(file), minimum)

(***************************************************************************)
(* ParallelScanner.scanInParallel, createWorker, terminateWorkers, and the  *)
(* worker thread of scanner.worker.ts.                                      *)
(***************************************************************************)
\* Math.ceil(n / d)
ceilDiv(n, d) == (n + d - 1) \div d

\* files.slice(from, to) with zero-based, end-exclusive indices.
slice(xs, from, to) == SubSeq(xs, Min(from, Len(xs)) + 1, Min(to, Len(xs)))

\* workerFiles with the chunk length rounded down instead of up.
workerFilesRoundedDown(fs, n, i) ==
    LET filesPerWorker == Len(fs) \div n
    IN slice(fs, i * filesPerWorker, (i + 1) * filesPerWorker)

\* workerFiles[i] of scanInParallel, i counted from 0.
workerFiles(fs, n, i) ==
    LET filesPerWorker == ceilDiv(Len(fs), n)
    IN slice(fs, i * filesPerWorker, (i + 1) * filesPerWorker)

\* options.minSeverity ?? 'low' of the Scanner each worker constructs.
workerMinSeverity == "low"

NoExit == -1

\* A new worker thread with its workerData.
newThread(chunk) ==
    [files |-> chunk, next |-> 1, results |-> <<>>, state |-> "running",
     exitCode |-> NoExit, errorEvent |-> "none", exitEvent |-> "none",
     terminateCalled |-> FALSE]

newPromise == [state |-> "pending", results |-> <<>>]

\* An 'exit' listener that resolves whatever the code is.
onExitAlwaysResolves(code) == "resolved"

\* The 'exit' listener of createWorker: reject unless the code is 0.
onExitSettles(code) == IF code # 0 THEN "rejected" ELSE "resolved"

\* A promise settles once.
settle(p, how) == IF p.state = "pending" THEN [p EXCEPT !.state = how] ELSE p

\* Promise.all(workerPromises): rejected with the first rejection, resolved
\* when every promise is resolved.
promiseAll(ps) ==
    IF \E w \in DOMAIN ps : ps[w].state = "rejected" THEN "rejected"
    ELSE IF \A w \in DOMAIN ps : ps[w].state = "resolved" THEN "resolved"
    ELSE "pending"

\* workerResults.flat(): the results arrays in worker-index order.
flatResults(ps) == flat([i \in 1..Cardinality(DOMAIN ps) |-> ps[i - 1].results])

\* worker.terminate(): a running thread stops and exits with code 1; on a
\* thread that has exited it changes nothing.
terminate(t) ==
    IF t.state = "running"
    THEN [t EXCEPT !.state = "exited", !.exitCode = 1, !.exitEvent = "pending",
                   !.terminateCalled = TRUE]
    ELSE [t EXCEPT !.terminateCalled = TRUE]

\* The workers terminateWorkers calls terminate() on: this.workers.map(...).
terminateWorkers(ws, ts) ==
    [w \in DOMAIN ts |->
        IF \E i \in 1..Len(ws) : ws[i] = w THEN terminate(ts[w]) ELSE ts[w]]

\* afterPromiseAll with the teardown on the success path only (no finally).
afterPromiseAllNoFinally(ps, ws, ts, all) ==
    [results |-> IF all = "resolved" THEN flatResults(ps) ELSE <<>>,
     thread |-> IF all = "resolved" THEN terminateWorkers(ws, ts) ELSE ts,
     callPc |-> IF all = "resolved" THEN "finally-resolved" ELSE "rejected"]

\* What the code after `await Promise.all` does once Promise.all settles:
\* on success push the flattened results; on both paths run the finally
\* block, which calls terminateWorkers. pc "finally" awaits the terminations.
afterPromiseAll(ps, ws, ts, all) ==
    [results |-> IF all = "resolved" THEN flatResults(ps) ELSE <<>>,
     thread |-> terminateWorkers(ws, ts),
     callPc |-> IF all = "resolved" THEN "finally-resolved" ELSE "finally-rejected"]

\* workerStep leaving the loop at a file whose analysis failed.
workerStepStopsAtBadFile(t) ==
    LET file == t.files[t.next]
        fileResults == scanSourceFile(file, workerMinSeverity)
    IN [thread |-> [t EXCEPT !.next = IF file.bad THEN Len(t.files) + 1 ELSE @ + 1,
                             !.results = @ \o fileResults],
        message |-> [type |-> "progress", data |-> <<>>, filePath |-> file.path]]

\* The body of the worker's for-loop for its next file: scanSourceFile never
\* rejects, so the catch block that posts an 'error' message is not entered;
\* the results are pushed and one 'progress' message is posted.
workerStep(t) ==
    LET file == t.files[t.next]
        fileResults == scanSourceFile(file, workerMinSeverity)
    IN [thread |-> [t EXCEPT !.next = @ + 1, !.results = @ \o fileResults],
        message |-> [type |-> "progress", data |-> <<>>, filePath |-> file.path]]

\* The 'message' listener of createWorker.
onMessage(p, message) ==
    IF message.type = "result" THEN [p EXCEPT !.results = @ \o message.data] ELSE p

\* The files scanInParallel may be handed: file i has path i.
FileKinds ==
    {[bad |-> TRUE, found |-> <<>>],
     [bad |-> FALSE, found |-> <<>>],
     [bad |-> FALSE, found |-> <<"high">>]}

FileLists ==
    UNION {{[i \in 1..n |-> [path |-> i, bad |-> k[i].bad, found |-> k[i].found]]
                : k \in [1..n -> FileKinds]} : n \in 0..MaxFiles}

NoThreads == [w \in {} |-> <<>>]

InitPar ==
    /\ files \in FileLists
    /\ numWorkers \in 1..MaxWorkers
    /\ workers = <<>>
    /\ thread = NoThreads
    /\ port = NoThreads
    /\ promises = NoThreads
    /\ callPc = "idle"
    /\ results = <<>>
    /\ completedFiles = 0

WorkerIds == 0..(numWorkers - 1)

\* scanInParallel, scanner.ts:27-45, up to `await Promise.all`: slice the
\* list, create and push one worker per chunk.
ScanInParallel ==
    /\ callPc = "idle"
    /\ thread' = [w \in WorkerIds |-> newThread(workerFiles(files, numWorkers, w))]
    /\ workers' = workers \o [i \in 1..numWorkers |-> i - 1]
    /\ port' = [w \in WorkerIds |-> <<>>]
    /\ promises' = [w \in WorkerIds |-> newPromise]
    /\ callPc' = "awaiting"
    /\ results' = <<>>
    /\ completedFiles' = 0
    /\ UNCHANGED <<files, numWorkers>>
    /\ UNCHANGED notPar

\* scanner.worker.ts:23-43: the worker scans the next file of its chunk.
WorkerScanFile(w) ==
    /\ thread[w].state = "running"
    /\ thread[w].next <= Len(thread[w].files)
    /\ thread' = [thread EXCEPT ![w] = workerStep(thread[w]).thread]
    /\ port' = [port EXCEPT ![w] = Append(@, workerStep(thread[w]).message)]
    /\ UNCHANGED <<files, numWorkers, workers, promises, callPc, results, completedFiles>>
    /\ UNCHANGED notPar

\* scanner.worker.ts:45-49: the loop is over; the worker posts its results,
\* run() returns and the thread exits with code 0.
WorkerSendResult(w) ==
    /\ thread[w].state = "running"
    /\ thread[w].next > Len(thread[w].files)
    /\ port' = [port EXCEPT ![w] = Append(@, [type |-> "result", data |-> thread[w].results,
                                              filePath |-> 0])]
    /\ thread' = [thread EXCEPT ![w] = [@ EXCEPT !.state = "exited", !.exitCode = 0,
                                                 !.exitEvent = "pending"]]
    /\ UNCHANGED <<files, numWorkers, workers, promises, callPc, results, completedFiles>>
    /\ UNCHANGED notPar

\* A worker thread ends abnormally: with an uncaught exception ('error'
\* event, then 'exit' with code 1) or with a non-zero exit code alone.
WorkerCrash(w) ==
    /\ thread[w].state = "running"
    /\ \E uncaught \in BOOLEAN :
        thread' = [thread EXCEPT ![w] =
                    [@ EXCEPT !.state = "exited", !.exitCode = 1, !.exitEvent = "pending",
                              !.errorEvent = IF uncaught THEN "pending" ELSE "none"]]
    /\ UNCHANGED <<files, numWorkers, workers, port, promises, callPc, results, completedFiles>>
    /\ UNCHANGED notPar

\* scanner.ts:75-90: the 'message' listener handles the oldest message.
OnMessage(w) ==
    /\ port[w] # <<>>
    /\ promises' = [promises EXCEPT ![w] = onMessage(@, Head(port[w]))]
    /\ completedFiles' =
            IF Head(port[w]).type = "progress" /\ callPc = "awaiting"
            THEN completedFiles + 1 ELSE completedFiles
    /\ port' = [port EXCEPT ![w] = Tail(@)]
    /\ UNCHANGED <<files, numWorkers, workers, thread, callPc, results>>
    /\ UNCHANGED notPar

\* A listener settled promise w as how. When that settles Promise.all, the
\* code after the await runs in the same turn, up to the await inside
\* terminateWorkers.
Settled(w, how, handled) ==
    LET ps == [promises EXCEPT ![w] = settle(@, how)]
        after == afterPromiseAll(ps, workers, handled, promiseAll(ps))
    IN /\ promises' = ps
       /\ IF callPc = "awaiting" /\ promiseAll(ps) # "pending"
          THEN /\ results' = after.results
               /\ thread' = after.thread
               /\ callPc' = after.callPc
          ELSE /\ thread' = handled
               /\ UNCHANGED <<results, callPc>>

\* scanner.ts:92: worker.on('error', reject).
OnError(w) ==
    /\ thread[w].errorEvent = "pending"
    /\ port[w] = <<>>
    /\ Settled(w, "rejected", [thread EXCEPT ![w] = [@ EXCEPT !.errorEvent = "handled"]])
    /\ UNCHANGED <<files, numWorkers, workers, port, completedFiles>>
    /\ UNCHANGED notPar

\* scanner.ts:94-100: the 'exit' listener, after the thread's messages and
\* its 'error' event.
OnExit(w) ==
    /\ thread[w].exitEvent = "pending"
    /\ thread[w].errorEvent # "pending"
    /\ port[w] = <<>>
    /\ Settled(w, onExitSettles(thread[w].exitCode),
               [thread EXCEPT ![w] = [@ EXCEPT !.exitEvent = "handled"]])
    /\ UNCHANGED <<files, numWorkers, workers, port, completedFiles>>
    /\ UNCHANGED notPar

\* scanner.ts:105-108 and 47-51: every terminate() promise is fulfilled,
\* terminateWorkers empties the list, and scanInParallel returns results or
\* rethrows the rejection.
FinishScan ==
    /\ callPc \in {"finally-resolved", "finally-rejected"}
    /\ \A i \in 1..Len(workers) : thread[workers[i]].state = "exited"
    /\ workers' = <<>>
    /\ callPc' = IF callPc = "finally-resolved" THEN "resolved" ELSE "rejected"
    /\ UNCHANGED <<files, numWorkers, thread, port, promises, results, completedFiles>>
    /\ UNCHANGED notPar

\* scanner.worker.ts:13-20 and 50-63: the worker's setup throws before the
\* file loop (new Scanner(options) rejects run(), loadCustomRules throws
\* into the outer catch); either handler posts one 'error' message without
\* filePath, no 'result' message follows, and the thread exits with code 0.
WorkerSetupFails(w) ==
    /\ thread[w].state = "running"
    /\ thread[w].next = 1
    /\ port' = [port EXCEPT ![w] = Append(@, [type |-> "error", data |-> <<>>,
                                              filePath |-> 0])]
    /\ thread' = [thread EXCEPT ![w] = [@ EXCEPT !.state = "exited", !.exitCode = 0,
                                                 !.exitEvent = "pending"]]
    /\ UNCHANGED <<files, numWorkers, workers, promises, callPc, results, completedFiles>>
    /\ UNCHANGED notPar

\* The parallel scan with workers whose setup succeeds.
NextPar ==
    \/ ScanInParallel
    \/ \E w \in DOMAIN thread : WorkerScanFile(w)
    \/ \E w \in DOMAIN thread : WorkerSendResult(w)
    \/ \E w \in DOMAIN thread : WorkerCrash(w)
    \/ \E w \in DOMAIN thread : OnMessage(w)
    \/ \E w \in DOMAIN thread : OnError(w)
    \/ \E w \in DOMAIN thread : OnExit(w)
    \/ FinishScan

\* The parallel scan with workers whose setup may fail.
NextParSetup ==
    \/ ScanInParallel
    \/ \E w \in DOMAIN thread : WorkerSetupFails(w)
    \/ \E w \in DOMAIN thread : WorkerScanFile(w)
    \/ \E w \in DOMAIN thread : WorkerSendResult(w)
    \/ \E w \in DOMAIN thread : WorkerCrash(w)
    \/ \E w \in DOMAIN thread : OnMessage(w)
    \/ \E w \in DOMAIN thread : OnError(w)
    \/ \E w \in DOMAIN thread : OnExit(w)
    \/ FinishScan

(***************************************************************************)
(* Claims about the parallel scan (SpecPar).                                *)
(***************************************************************************)
Returned == callPc \in {"resolved", "rejected"}

\* No worker ended abnormally: each exited with code 0 without 'error'.
AllExitedNormally ==
    \A w \in DOMAIN thread : thread[w].exitCode = 0 /\ thread[w].errorEvent = "none"

SomeWorkerFailed ==
    \E w \in DOMAIN thread :
        thread[w].errorEvent # "none" \/ thread[w].exitCode \notin {0, NoExit}

\* The findings of the files that can be analysed, in the order of the list.
findingsOfGoodFiles ==
    flat([i \in 1..Len(files) |-> IF files[i].bad THEN <<>> ELSE rawFindings(files[i])])

C3_WorkerFailureRejects ==
    /\ (Returned /\ SomeWorkerFailed) => (callPc = "rejected" /\ results = <<>>)
    /\ callPc \in {"finally-resolved", "resolved"} => ~SomeWorkerFailed

\* C3 witness: the call rejected although another worker had exited with
\* code 0 and its findings had been delivered.
C3_Witness ==
    /\ callPc = "rejected"
    /\ \E w \in DOMAIN thread :
        /\ thread[w].exitCode = 0
        /\ promises[w].state = "resolved"
        /\ promises[w].results # <<>>

\* C4: on every exit path terminate() has been called on every worker the
\* call created and the worker list is empty before the call returns.
C4_WorkersTornDown ==
    Returned =>
        /\ workers = <<>>
        /\ \A w \in DOMAIN thread : thread[w].terminateCalled /\ thread[w].state = "exited"

\* C4 witness: the call rejected, and a worker that still had files to scan
\* was terminated.
C4_Witness ==
    /\ callPc = "rejected"
    /\ \E w \in DOMAIN thread :
        /\ thread[w].terminateCalled
        /\ thread[w].next <= Len(thread[w].files)
        /\ thread[w].errorEvent = "none"
        /\ promises[w].state = "pending"

\* The least k with k * w >= n: ceil(n / w), found by search.
leastChunkLength(n, w) == CHOOSE k \in 0..n : k * w >= n /\ \A j \in 0..(k - 1) : j * w < n

\* files[from, to) by index arithmetic on the input list, zero-based.
contiguous(fs, from, to) ==
    [j \in 1..(IF to > from THEN to - from ELSE 0) |-> fs[from + j]]

\* The chunks handed to the workers, concatenated in worker-index order.
chunksInOrder == flat([i \in 1..Cardinality(DOMAIN thread) |-> thread[i - 1].files])

\* C11: scanInParallel builds exactly W chunks, chunk i being the contiguous
\* slice files[i*k, (i+1)*k) cut at the end of the list, with k = ceil(N/W);
\* the chunks concatenated in worker-index order equal the input list, so
\* every file goes to exactly one worker.
C11_ChunksPartitionFiles ==
    callPc # "idle" =>
        LET k == leastChunkLength(Len(files), numWorkers)
        IN /\ DOMAIN thread = 0..(numWorkers - 1)
           /\ \A i \in DOMAIN thread :
                thread[i].files = contiguous(files, Min(i * k, Len(files)),
                                             Min((i + 1) * k, Len(files)))
           /\ chunksInOrder = files

\* Three files were split over two workers: two files and one.
C11_Witness ==
    /\ callPc # "idle"
    /\ Len(files) = 3
    /\ numWorkers = 2
    /\ Len(thread[0].files) = 2
    /\ Len(thread[1].files) = 1

\* The file of the input list a per-file message is about.
fileOf(message) == files[message.filePath]

\* C12: for every file of its chunk a worker sends one event: 'progress' if
\* the file's analysis completed, 'error' with the file path if it failed;
\* a failed file gives no progress unit, so the progress counter never
\* exceeds the number of files analysed successfully.
C12_FailedFileSendsError ==
    /\ \A w \in DOMAIN port : \A i \in 1..Len(port[w]) :
        port[w][i].type # "result" =>
            (port[w][i].type = "progress" <=> ~fileOf(port[w][i]).bad)
    /\ completedFiles <= Cardinality({i \in 1..Len(files) : ~files[i].bad})

\* C27: scanInParallel resolves only if every worker delivered a 'result'
\* message covering its chunk: when a worker's setup fails before its file
\* loop, the scan does not resolve with the files of that chunk unanalysed
\* and their findings missing.
C27_ResolvesOnlyWithEveryChunk ==
    callPc \in {"finally-resolved", "resolved"} =>
        /\ \A w \in DOMAIN thread : thread[w].next = Len(thread[w].files) + 1
        /\ results = findingsOfGoodFiles

\* Promise.all resolves in this step: the last worker promise is resolved.
allResolvedNow == callPc = "awaiting" /\ callPc' = "finally-resolved"

\* Worker w is the one whose exit resolved the last pending promise.
finishedLast(w) == promises[w].state = "pending" /\ promises'[w].state = "resolved"

\* xs ends with ys.
endsWith(xs, ys) ==
    Len(ys) <= Len(xs) /\ SubSeq(xs, Len(xs) - Len(ys) + 1, Len(xs)) = ys

\* C21: the order of the returned finding list follows the order in which
\* the workers complete, so the findings of the worker that completes last
\* are the last of the list, whatever its index: two runs that differ in
\* the exit order return the findings of different files in another order.
C21_OrderFollowsCompletion ==
    [][allResolvedNow =>
        \A w \in DOMAIN promises : finishedLast(w) => endsWith(results', promises'[w].results)
      ]_vars

(***************************************************************************)
(* Two scanInParallel calls on one ParallelScanner. The calls share        *)
(* this.workers (scanner.ts:12, 71, 104-109); each has its own              *)
(* workerPromises and results (scanner.ts:27-46).                           *)
(***************************************************************************)
Calls == {1, 2}

\* The file lists handed to the two calls.
CallFileLists == {fs \in FileLists : Len(fs) \in 1..MaxWorkers}

\* A call not yet made: ids are its workers in workerPromises order,
\* terminating the workers its terminateWorkers called terminate() on.
newCall(fs) ==
    [files |-> fs, ids |-> <<>>, pc |-> "idle", results |-> <<>>, terminating |-> <<>>]

notOverlap == <<depVars, flowVars, scanVars, matchVars, ruleVars, cacheVars, legacyVars,
                watchVars, regimeVars>>

InitOverlap ==
    /\ calls \in [Calls -> {newCall(fs) : fs \in CallFileLists}]
    /\ numWorkers \in 1..MaxWorkers
    /\ files = <<>>
    /\ workers = <<>>
    /\ thread = NoThreads
    /\ port = NoThreads
    /\ promises = NoThreads
    /\ callPc = "idle"
    /\ results = <<>>
    /\ completedFiles = 0

\* The workers created so far are numbered 0, 1, ... in creation order.
created == Cardinality(DOMAIN thread)

\* f extended with value(w) for the new workers.
withWorkers(f, ids, value(_)) ==
    [w \in DOMAIN f \cup {ids[i] : i \in 1..Len(ids)} |->
        IF w \in DOMAIN f THEN f[w] ELSE value(w)]

\* scanInParallel, scanner.ts:27-45, up to `await Promise.all`, for call c:
\* its workers are pushed onto the list the instance already holds.
OverlapScanInParallel(c) ==
    /\ calls[c].pc = "idle"
    /\ LET base == created
           ids == [i \in 1..numWorkers |-> base + i - 1]
           chunk(w) == newThread(workerFiles(calls[c].files, numWorkers, w - base))
           empty(w) == <<>>
           pending(w) == newPromise
       IN /\ thread' = withWorkers(thread, ids, chunk)
          /\ port' = withWorkers(port, ids, empty)
          /\ promises' = withWorkers(promises, ids, pending)
          /\ workers' = workers \o ids
          /\ calls' = [calls EXCEPT ![c] = [@ EXCEPT !.pc = "awaiting", !.ids = ids]]
    /\ UNCHANGED <<files, numWorkers, callPc, results, completedFiles>>
    /\ UNCHANGED notOverlap

\* The call that created worker w.
callOf(w) == CHOOSE c \in Calls : \E i \in 1..Len(calls[c].ids) : calls[c].ids[i] = w

\* workerPromises of a call, indexed from 0 as in scanInParallel.
workerPromises(ps, ids) == [i \in 0..(Len(ids) - 1) |-> ps[ids[i + 1]]]

\* scanner.ts:94-100 with 45-49: the 'exit' listener of worker w settles its
\* promise; when that settles the Promise.all of its call, the call pushes
\* its results and its finally block calls terminateWorkers, which calls
\* terminate() on every worker in this.workers.
OverlapOnExit(w) ==
    /\ thread[w].exitEvent = "pending"
    /\ port[w] = <<>>
    /\ LET c == callOf(w)
           ps == [promises EXCEPT ![w] = settle(@, onExitSettles(thread[w].exitCode))]
           handled == [thread EXCEPT ![w] = [@ EXCEPT !.exitEvent = "handled"]]
           mine == workerPromises(ps, calls[c].ids)
           after == afterPromiseAll(mine, workers, handled, promiseAll(mine))
       IN /\ promises' = ps
          /\ IF calls[c].pc = "awaiting" /\ promiseAll(mine) # "pending"
             THEN /\ thread' = after.thread
                  /\ calls' = [calls EXCEPT ![c] = [@ EXCEPT !.pc = after.callPc,
                                                             !.results = after.results,
                                                             !.terminating = workers]]
             ELSE /\ thread' = handled
                  /\ UNCHANGED calls
    /\ UNCHANGED <<files, numWorkers, workers, port, callPc, results, completedFiles>>
    /\ UNCHANGED notOverlap

\* scanner.ts:105-108 and 47-51 for call c: the terminate() promises are
\* fulfilled, terminateWorkers empties this.workers, and the call returns
\* its results or rethrows the rejection.
OverlapFinishScan(c) ==
    /\ calls[c].pc \in {"finally-resolved", "finally-rejected"}
    /\ \A i \in 1..Len(calls[c].terminating) :
            thread[calls[c].terminating[i]].state = "exited"
    /\ workers' = <<>>
    /\ calls' = [calls EXCEPT ![c] =
                    [@ EXCEPT !.pc = IF @ = "finally-resolved" THEN "resolved" ELSE "rejected"]]
    /\ UNCHANGED <<files, numWorkers, thread, port, promises, callPc, results, completedFiles>>
    /\ UNCHANGED notOverlap

\* Two calls on one instance; no worker fails by itself.
NextOverlap ==
    \/ \E c \in Calls : OverlapScanInParallel(c)
    \/ \E w \in DOMAIN thread : WorkerScanFile(w)
    \/ \E w \in DOMAIN thread : WorkerSendResult(w)
    \/ \E w \in DOMAIN thread : OnMessage(w)
    \/ \E w \in DOMAIN thread : OverlapOnExit(w)
    \/ \E c \in Calls : OverlapFinishScan(c)

\* The findings of the files of a call, in file order.
findingsOfCall(c) ==
    flat([i \in 1..Len(calls[c].files) |->
            IF calls[c].files[i].bad THEN <<>> ELSE rawFindings(calls[c].files[i])])

\* C28: two overlapping scanInParallel calls on one ParallelScanner do not
\* interfere: the teardown that ends one call terminates no worker that is
\* still running for the other call (no worker exits with code 1, none
\* failing by itself), so no call rejects and a call that resolved holds
\* the findings of all of its files.
C28_OverlappingCallsDoNotInterfere ==
    /\ \A w \in DOMAIN thread : thread[w].exitCode # 1
    /\ \A c \in Calls :
        /\ calls[c].pc \notin {"finally-rejected", "rejected"}
        /\ calls[c].pc \in {"finally-resolved", "resolved"} =>
                calls[c].results = findingsOfCall(c)

(***************************************************************************)
(* The public scan operations of Scanner, one await per step, and           *)
(* setMinimumSeverity, which a caller may run between any two steps.        *)
(***************************************************************************)
\* What scanPackageJson resolves to for a readable manifest, part_004:105-116
\* (for an unreadable one the catch block returns []).
scanPackageJson(db, modules, deps, minimum) ==
    filterBySeverity(scanDependencies(db, modules, deps, <<>>), minimum)

\* What scanInParallel resolves to when no worker fails: every file's
\* scanSourceFile result, filtered by the workers' own Scanner, which is
\* constructed from the constructor options.
parallelResults(sourceFiles, constructed) ==
    LET workerMin == IF constructed = <<>> THEN "low" ELSE constructed[1]
    IN flat([i \in 1..Len(sourceFiles) |-> scanSourceFile(sourceFiles[i], workerMin)])

\* The same return statement, were scanProject to hand back what it
\* accumulated without filtering it again.
returnValueUnfilteredProject(kind, found, minimum) ==
    IF kind = "scanProject" THEN found ELSE filterBySeverity(found, minimum)

\* The return statement of a public scan operation: part_004:116, 151, 734
\* and 763 all return this.filterBySeverity(vulnerabilities).
returnValue(kind, found, minimum) == filterBySeverity(found, minimum)

\* Before an operation has filtered or returned anything.
noFilterCall == [input |-> <<>>, minimum |-> "low", output |-> <<>>]

nothingHanded == [kind |-> "none", outcome |-> "none", value |-> <<>>, minimum |-> "low"]

idleOp == [kind |-> "none", pc |-> "idle", idx |-> 0, acc |-> <<>>]

manifestEntry == [manifest |-> TRUE, path |-> 0, bad |-> FALSE, found |-> <<>>]

\* collectSourceFiles: the source files among the entries.
sourceFilesOf(entries) ==
    flat([i \in 1..Len(entries) |-> IF entries[i].manifest THEN <<>> ELSE <<entries[i]>>])

hasManifest(entries) == \E i \in 1..Len(entries) : entries[i].manifest

SourceKinds ==
    {[bad |-> TRUE, found |-> <<>>],
     [bad |-> FALSE, found |-> <<"low", "critical", "medium", "high">>],
     [bad |-> FALSE, found |-> <<"high", "moderate", "low">>]}

Projects ==
    UNION {{[i \in 1..n |->
                IF k[i] = manifestEntry THEN manifestEntry
                ELSE [manifest |-> FALSE, path |-> i, bad |-> k[i].bad, found |-> k[i].found]]
            : k \in [1..n -> SourceKinds \cup {manifestEntry}]} : n \in 1..MaxEntries}

InitScan ==
    /\ constructedMin \in {<<>>, <<"high">>}
    /\ minSeverity = IF constructedMin = <<>> THEN "low" ELSE constructedMin[1]
    /\ project \in Projects
    /\ op = idleOp
    /\ lastFilter = noFilterCall
    /\ handed = nothingHanded
    \* the manifest and the database behind it
    /\ \E sev \in {"medium", "critical", "moderate"} :
            vulnerabilityDB = dbWith("jquery", sev, <<[atOrAbove |-> Some(<<"1">>), below |-> Absent]>>)
    /\ dependencies = <<[pkg |-> "jquery", version |-> <<"1", ".", "7", ".", "1">>]>>
    /\ nodeModules = NoModules
    /\ vulnerabilities = <<>>
    /\ depPc = "idle"
    /\ lastCall = <<>>

\* setMinimumSeverity(severity), part_004:790-792.
SetMinimumSeverity ==
    /\ \E severity \in {severityLevels[i] : i \in 1..Len(severityLevels)} :
        /\ severity # minSeverity
        /\ minSeverity' = severity
    /\ UNCHANGED <<constructedMin, project, op, lastFilter, handed>>
    /\ UNCHANGED notScan

\* A caller starts one of the four public scan operations; each first awaits
\* a file-system call.
BeginScan ==
    /\ op.kind = "none"
    /\ \E kind \in {"scanPackageJson", "scanSourceFile", "scanProject", "scanProjectInParallel"} :
        /\ kind = "scanPackageJson" => hasManifest(project)
        /\ kind = "scanSourceFile" => sourceFilesOf(project) # <<>>
        /\ op' = [kind |-> kind, acc |-> <<>>, idx |-> 1,
                  pc |-> CASE kind \in {"scanPackageJson", "scanSourceFile"} -> "body"
                           [] hasManifest(project) -> "manifest"
                           [] kind = "scanProject" -> "files"
                           [] OTHER -> "parallel"]
    /\ lastFilter' = noFilterCall
    /\ handed' = nothingHanded
    /\ UNCHANGED <<minSeverity, constructedMin, project>>
    /\ UNCHANGED notScan

\* The filterBySeverity call a step makes, as lastFilter records it.
filterCall(found, minimum) ==
    [input |-> found, minimum |-> minimum, output |-> filterBySeverity(found, minimum)]

\* scanPackageJson(path) called by the user, part_004:103-121.
ScanPackageJson ==
    /\ op.kind = "scanPackageJson" /\ op.pc = "body"
    /\ LET found == scanDependencies(vulnerabilityDB, nodeModules, dependencies, <<>>)
       IN /\ lastFilter' = filterCall(found, minSeverity)
          /\ handed' = [kind |-> op.kind, outcome |-> "resolved", minimum |-> minSeverity,
                        value |-> returnValue(op.kind, found, minSeverity)]
    /\ op' = idleOp
    /\ UNCHANGED <<minSeverity, constructedMin, project>>
    /\ UNCHANGED notScan

\* scanSourceFile(path) called by the user on the first source file,
\* part_004:123-156.
ScanSourceFile ==
    /\ op.kind = "scanSourceFile" /\ op.pc = "body"
    /\ LET file == sourceFilesOf(project)[1]
           found == IF file.bad THEN <<>> ELSE rawFindings(file)
       IN /\ lastFilter' = IF file.bad THEN lastFilter ELSE filterCall(found, minSeverity)
          /\ handed' = [kind |-> op.kind, outcome |-> "resolved", minimum |-> minSeverity,
                        value |-> IF file.bad THEN <<>>
                                  ELSE returnValue(op.kind, found, minSeverity)]
    /\ op' = idleOp
    /\ UNCHANGED <<minSeverity, constructedMin, project>>
    /\ UNCHANGED notScan

\* scanProject and scanProjectInParallel, part_004:725-729 and 745-749:
\* await scanPackageJson(packageJsonPath) and push what it resolves to.
ScanManifest ==
    /\ op.pc = "manifest"
    /\ LET found == scanDependencies(vulnerabilityDB, nodeModules, dependencies, <<>>)
       IN /\ lastFilter' = filterCall(found, minSeverity)
          /\ op' = [op EXCEPT !.acc = @ \o scanPackageJson(vulnerabilityDB, nodeModules,
                                                         dependencies, minSeverity),
                              !.pc = IF op.kind = "scanProject" THEN "files" ELSE "parallel"]
    /\ UNCHANGED <<minSeverity, constructedMin, project, handed>>
    /\ UNCHANGED notScan

\* scanProjectFiles, part_004:584-600: the next directory entry is scanned
\* by scanPackageJson or scanSourceFile and what it resolves to is pushed.
ScanEntry ==
    /\ op.kind = "scanProject" /\ op.pc = "files"
    /\ op.idx <= Len(project)
    /\ LET entry == project[op.idx]
           found == IF entry.manifest
                    THEN scanDependencies(vulnerabilityDB, nodeModules, dependencies, <<>>)
                    ELSE rawFindings(entry)
           pushed == IF entry.manifest
                     THEN scanPackageJson(vulnerabilityDB, nodeModules, dependencies, minSeverity)
                     ELSE scanSourceFile(entry, minSeverity)
       IN /\ lastFilter' = IF entry.bad THEN lastFilter ELSE filterCall(found, minSeverity)
          /\ op' = [op EXCEPT !.acc = @ \o pushed, !.idx = @ + 1]
    /\ UNCHANGED <<minSeverity, constructedMin, project, handed>>
    /\ UNCHANGED notScan

\* scanProjectInParallel, part_004:752-761: collect the source files and
\* await scanInParallel, which resolves with the workers' results or, when
\* a worker fails, rejects; the rejection is not caught.
ScanParallel ==
    /\ op.kind = "scanProjectInParallel" /\ op.pc = "parallel"
    /\ \/ /\ op' = [op EXCEPT !.acc = @ \o parallelResults(sourceFilesOf(project), constructedMin),
                              !.pc = "return"]
          /\ UNCHANGED handed
       \/ /\ sourceFilesOf(project) # <<>>
          /\ op' = idleOp
          /\ handed' = [kind |-> op.kind, outcome |-> "rejected", minimum |-> minSeverity,
                        value |-> <<>>]
    /\ UNCHANGED <<minSeverity, constructedMin, project, lastFilter>>
    /\ UNCHANGED notScan

\* scanProject, part_004:734, and scanProjectInParallel, part_004:763:
\* return this.filterBySeverity(vulnerabilities).
ReturnProject ==
    /\ \/ op.kind = "scanProject" /\ op.pc = "files" /\ op.idx > Len(project)
       \/ op.kind = "scanProjectInParallel" /\ op.pc = "return"
    /\ lastFilter' = filterCall(op.acc, minSeverity)
    /\ handed' = [kind |-> op.kind, outcome |-> "resolved", minimum |-> minSeverity,
                  value |-> returnValue(op.kind, op.acc, minSeverity)]
    /\ op' = idleOp
    /\ UNCHANGED <<minSeverity, constructedMin, project>>
    /\ UNCHANGED notScan

NextScan ==
    \/ SetMinimumSeverity
    \/ BeginScan
    \/ ScanPackageJson
    \/ ScanSourceFile
    \/ ScanManifest
    \/ ScanEntry
    \/ ScanParallel
    \/ ReturnProject

(***************************************************************************)
(* Scanner.matchesPattern and the matchers it calls. A matcher returns      *)
(* "true" or "false", or throws: the result is then the name of the error.  *)
(***************************************************************************)
bool(b) == IF b THEN "true" ELSE "false"

\* Array.prototype.every over the callback results, in order: the first
\* result that is not true ends the loop (false, or the error thrown).
RECURSIVE every(_)
every(rs) ==
    IF rs = <<>> THEN "true"
    ELSE IF Head(rs) # "true" THEN Head(rs)
    ELSE every(Tail(rs))

\* Array.prototype.some: the first result that is not false ends the loop.
RECURSIVE some(_)
some(rs) ==
    IF rs = <<>> THEN "false"
    ELSE IF Head(rs) # "false" THEN Head(rs)
    ELSE some(Tail(rs))

\* The regular expressions rule files carry here, each with the strings it
\* accepts; any other regex string is not a valid regular expression.
RegexLanguage == [r \in {"[12]"} |-> {"1", "2"}]

\* new RegExp(regex).test(str): the constructor throws a SyntaxError for an
\* invalid regex string.
regExpTest(regex, str) ==
    IF regex \notin DOMAIN RegexLanguage THEN "SyntaxError"
    ELSE bool(str \in RegexLanguage[regex])

\* AST nodes the matchers look into. A literal's value and a property key
\* are strings; Hole is the null element of an array literal with holes.
LiteralValue(value) == [type |-> "Literal", value |-> value]
Property(key, value) == [type |-> "Property", key |-> key, value |-> value]
SpreadElement == [type |-> "SpreadElement"]
Hole == [type |-> "Hole"]
ObjectExpression(properties) == [type |-> "ObjectExpression", properties |-> properties]
ArrayExpression(elements) == [type |-> "ArrayExpression", elements |-> elements]
TemplateLiteral(raw) == [type |-> "TemplateLiteral", raw |-> raw]
ThisExpression == [type |-> "ThisExpression"]
AssignmentNode(operator, left, right) ==
    [type |-> "AssignmentExpression", operator |-> operator, left |-> left, right |-> right]

\* A CodePattern or ExpressionPattern with every optional field undefined.
\* An optional field is <<>> when undefined and <<v>> otherwise.
basePattern(type) ==
    [type |-> type, nodeType |-> <<>>, value |-> <<>>, regex |-> <<>>, name |-> <<>>,
     properties |-> <<>>, elements |-> <<>>, arguments |-> <<>>, pattern |-> <<>>,
     object |-> <<>>, property |-> <<>>, operator |-> <<>>, left |-> <<>>, right |-> <<>>]

\* matchLiteralPattern, part_004:385-396.
matchLiteralPattern(node, pattern) ==
    IF pattern.type = "Literal"
    THEN IF pattern.value # <<>> THEN bool(node.value = pattern.value[1])
         ELSE IF pattern.regex # <<>> THEN regExpTest(pattern.regex[1], node.value)
         ELSE "true"
    ELSE "false"

\* matchTemplateLiteralPattern, part_004:398-409.
matchTemplateLiteralPattern(node, pattern) ==
    IF pattern.type # "TemplateLiteral" THEN "false"
    ELSE IF pattern.regex # <<>> THEN regExpTest(pattern.regex[1], node.raw)
    ELSE "true"

\* matchIdentifierPattern, part_004:411-422.
matchIdentifierPattern(node, pattern) ==
    IF pattern.type = "Identifier"
    THEN IF pattern.name # <<>> THEN bool(node.name = pattern.name[1])
         ELSE IF pattern.regex # <<>> THEN regExpTest(pattern.regex[1], node.name)
         ELSE "true"
    ELSE "false"

\* matchMemberExpression, part_004:306-341.
matchMemberExpression(node, pattern) ==
    IF pattern.type # "MemberExpression" THEN "false"
    ELSE IF pattern.pattern # <<>> /\ pattern.pattern[1].type = "MemberExpression"
    THEN LET inner == pattern.pattern[1]
             objectFails ==
                /\ inner.object # <<>>
                /\ \/ node.object.type = "Identifier" /\ node.object.name # inner.object[1]
                   \/ node.object.type = "ThisExpression" /\ inner.object[1] # "this"
             propertyFails ==
                /\ inner.property # <<>>
                /\ \/ node.property.type = "Identifier"
                        /\ node.property.name # inner.property[1]
                   \/ node.property.type = "Literal"
                        /\ node.property.value # inner.property[1]
         IN bool(~objectFails /\ ~propertyFails)
    ELSE "true"

\* The key matchObjectPattern reads off a property, part_004:432-433.
propertyKey(prop) ==
    CASE prop.key.type = "Identifier" -> prop.key.name
      [] prop.key.type = "Literal" -> prop.key.value
      [] OTHER -> "null"

RECURSIVE matchExpressionPattern(_, _), matchObjectPattern(_, _), matchArrayPattern(_, _),
          matchCallExpression(_, _), matchArgumentPattern(_, _)

\* matchObjectPattern requiring every property of the node to match.
matchObjectPatternUniversal(node, pattern) ==
    IF pattern.type # "ObjectExpression" THEN "false"
    ELSE IF pattern.properties # <<>>
    THEN every([i \in 1..Len(node.properties) |->
            IF node.properties[i].type # "Property" THEN "false"
            ELSE some([j \in 1..Len(pattern.properties[1]) |->
                    IF pattern.properties[1][j].key = propertyKey(node.properties[i])
                    THEN matchExpressionPattern(node.properties[i].value,
                                                pattern.properties[1][j].value)
                    ELSE "false"])])
    ELSE "true"

\* matchObjectPattern, part_004:424-441.
matchObjectPattern(node, pattern) ==
    IF pattern.type # "ObjectExpression" THEN "false"
    ELSE IF pattern.properties # <<>>
    THEN some([i \in 1..Len(node.properties) |->
            IF node.properties[i].type # "Property" THEN "false"
            ELSE some([j \in 1..Len(pattern.properties[1]) |->
                    IF pattern.properties[1][j].key = propertyKey(node.properties[i])
                    THEN matchExpressionPattern(node.properties[i].value,
                                                pattern.properties[1][j].value)
                    ELSE "false"])])
    ELSE "true"

\* matchArrayPattern, part_004:443-458.
matchArrayPattern(node, pattern) ==
    IF pattern.type # "ArrayExpression" THEN "false"
    ELSE IF pattern.elements # <<>>
    THEN IF Len(pattern.elements[1]) # Len(node.elements) THEN "false"
         ELSE every([i \in 1..Len(pattern.elements[1]) |->
                IF node.elements[i].type = "Hole" THEN "false"
                ELSE matchExpressionPattern(node.elements[i], pattern.elements[1][i])])
    ELSE "true"

\* matchCallExpression, part_004:279-304.
matchCallExpression(node, pattern) ==
    IF pattern.type # "CallExpression" THEN "false"
    ELSE LET hasInner == pattern.pattern # <<>> /\ pattern.pattern[1].type = "CallExpression"
             inner == pattern.pattern[1]
         IN IF /\ hasInner
               /\ node.callee.type = "Identifier"
               /\ inner.name # <<>>
               /\ node.callee.name # inner.name[1]
            THEN "false"
            ELSE IF hasInner /\ inner.arguments # <<>>
            THEN IF Len(node.arguments) # Len(inner.arguments[1]) THEN "false"
                 ELSE every([i \in 1..Len(inner.arguments[1]) |->
                        matchArgumentPattern(node.arguments[i], inner.arguments[1][i])])
            ELSE "true"

\* matchArgumentPattern, part_004:368-383.
matchArgumentPattern(arg, pattern) ==
    CASE arg.type = "Literal" -> matchLiteralPattern(arg, pattern)
      [] arg.type = "TemplateLiteral" -> matchTemplateLiteralPattern(arg, pattern)
      [] arg.type = "Identifier" -> matchIdentifierPattern(arg, pattern)
      [] arg.type = "ObjectExpression" -> matchObjectPattern(arg, pattern)
      [] arg.type = "ArrayExpression" -> matchArrayPattern(arg, pattern)
      [] OTHER -> "false"

\* matchExpressionPattern, part_004:460-477.
matchExpressionPattern(node, pattern) ==
    CASE node.type = "Literal" -> matchLiteralPattern(node, pattern)
      [] node.type = "Identifier" -> matchIdentifierPattern(node, pattern)
      [] node.type = "MemberExpression" -> matchMemberExpression(node, pattern)
      [] node.type = "CallExpression" -> matchCallExpression(node, pattern)
      [] node.type = "ObjectExpression" -> matchObjectPattern(node, pattern)
      [] node.type = "ArrayExpression" -> matchArrayPattern(node, pattern)
      [] OTHER -> "false"

\* matchAssignmentExpression, part_004:343-366.
matchAssignmentExpression(node, pattern) ==
    IF pattern.type # "AssignmentExpression" THEN "false"
    ELSE IF pattern.operator # <<>> /\ node.operator # pattern.operator[1] THEN "false"
    ELSE LET leftMatches == IF pattern.left # <<>>
                            THEN matchExpressionPattern(node.left, pattern.left[1])
                            ELSE "true"
         IN IF leftMatches # "true" THEN leftMatches
            ELSE IF pattern.right # <<>>
                 THEN matchExpressionPattern(node.right, pattern.right[1])
                 ELSE "true"

\* matchesPattern, part_004:260-277.
matchesPattern(node, pattern) ==
    IF pattern.nodeType # <<>> /\ node.type # pattern.nodeType[1] THEN "false"
    ELSE CASE node.type = "CallExpression" -> matchCallExpression(node, pattern)
           [] node.type = "MemberExpression" -> matchMemberExpression(node, pattern)
           [] node.type = "AssignmentExpression" -> matchAssignmentExpression(node, pattern)
           [] OTHER -> "false"

\* The nodes and rules matchesPattern is called with.
litValue(v) == [basePattern("Literal") EXCEPT !.value = <<v>>]
litRegex(r) == [basePattern("Literal") EXCEPT !.regex = <<r>>]

SeqsUpTo(S, n) == UNION {[1..m -> S] : m \in 0..n}

NodeProps ==
    {Property(Identifier("a"), LiteralValue("1")), Property(Identifier("b"), LiteralValue("2")),
     Property(Identifier("a"), LiteralValue("2")), SpreadElement}

PatternValues == {litValue("1"), litValue("3"), litRegex("(")}

PatternProps == {[key |-> k, value |-> pv] : k \in {"a", "c"}, pv \in PatternValues}

ObjectNodes == {ObjectExpression(ps) : ps \in SeqsUpTo(NodeProps, MaxProps)}

ObjectPatterns ==
    {basePattern("ObjectExpression")}
    \cup {[basePattern("ObjectExpression") EXCEPT !.properties = <<ps>>] :
            ps \in SeqsUpTo(PatternProps, MaxProps)}

ArrayNodes ==
    {ArrayExpression(es) : es \in SeqsUpTo({LiteralValue("1"), LiteralValue("2"), Hole}, MaxProps)}

ArrayPatterns ==
    {basePattern("ArrayExpression")}
    \cup {[basePattern("ArrayExpression") EXCEPT !.elements = <<es>>] :
            es \in SeqsUpTo(PatternValues, MaxProps)}

\* An ExpressionPattern of kind MemberExpression (types/index.ts:65-69) or
\* CallExpression (78-82), as it stands inside another pattern.
memberSubPattern(object, property) ==
    [basePattern("MemberExpression") EXCEPT !.object = object, !.property = property]

callSubPattern(name) == [basePattern("CallExpression") EXCEPT !.name = name]

\* o.p, g() and x = 1 as operands.
CompoundNodes ==
    {MemberExpression(Identifier("o"), Identifier("p")),
     CallExpression(Identifier("g"), <<>>),
     AssignmentNode("=", Identifier("x"), LiteralValue("1"))}

CompoundPatterns ==
    {memberSubPattern(<<"o">>, <<"p">>), memberSubPattern(<<"o">>, <<"q">>),
     callSubPattern(<<"g">>), callSubPattern(<<"h">>),
     basePattern("AssignmentExpression")}

ArgNodes ==
    ObjectNodes \cup ArrayNodes \cup CompoundNodes
    \cup {LiteralValue("1"), Identifier("x"), TemplateLiteral("1"), ThisExpression}

ArgPatterns ==
    ObjectPatterns \cup ArrayPatterns \cup PatternValues \cup CompoundPatterns
    \cup {basePattern("Identifier"),
          [basePattern("Identifier") EXCEPT !.regex = <<"(">>],
          [basePattern("TemplateLiteral") EXCEPT !.regex = <<"(">>]}

\* A rule for calls of f with the given argument patterns (<<>>: none given).
callRule(name, arguments) ==
    [basePattern("CallExpression") EXCEPT
        !.pattern = <<[basePattern("CallExpression") EXCEPT !.name = <<name>>,
                                                            !.arguments = arguments]>>]

memberRule(object, property) ==
    [basePattern("MemberExpression") EXCEPT
        !.pattern = <<[basePattern("MemberExpression") EXCEPT !.object = object,
                                                              !.property = property]>>]

assignmentRule(operator, left, right) ==
    [basePattern("AssignmentExpression") EXCEPT
        !.operator = operator, !.left = left, !.right = right]

OtherNodes ==
    {MemberExpression(Identifier("o"), Identifier("p")),
     MemberExpression(ThisExpression, LiteralValue("p")),
     AssignmentNode("=", Identifier("x"), LiteralValue("1")),
     AssignmentNode("=", Identifier("x"), MemberExpression(Identifier("o"), Identifier("p"))),
     AssignmentNode("=", Identifier("x"), CallExpression(Identifier("g"), <<>>)),
     CallExpression(Identifier("g"), <<>>),
     LiteralValue("1"), Identifier("x"), ObjectExpression(<<>>)}

OtherRules ==
    {memberRule(o, q) : o \in {<<>>, <<"o">>, <<"this">>}, q \in {<<>>, <<"p">>, <<"q">>}}
    \cup {assignmentRule(o, l, r) :
            o \in {<<>>, <<"=">>, <<"+=">>},
            l \in {<<>>, <<basePattern("Identifier")>>, <<litValue("1")>>},
            r \in {<<>>, <<litValue("1")>>, <<litRegex("(")>>}
                    \cup {<<q>> : q \in CompoundPatterns}}
    \cup {callRule("f", <<>>), callRule("g", <<<<>>>>), basePattern("NewExpression"),
          [basePattern("CallExpression") EXCEPT !.nodeType = <<"MemberExpression">>],
          [basePattern("Literal") EXCEPT !.nodeType = <<"Literal">>]}

\* How many arguments the call has and how many argument patterns the rule:
\* f(arg) or f(arg, 1) against no list, <<p>> or <<p, 1>>.
CallShapes == {<<1, 0>>, <<1, 1>>, <<2, 1>>, <<1, 2>>}

callNode(arg, shape) ==
    CallExpression(Identifier("f"),
                   IF shape[1] = 1 THEN <<arg>> ELSE <<arg, LiteralValue("1")>>)

callRuleFor(argPattern, shape) ==
    callRule("f", CASE shape[2] = 0 -> <<>>
                    [] shape[2] = 1 -> <<<<argPattern>>>>
                    [] OTHER -> <<<<argPattern, litValue("1")>>>>)

InitMatch ==
    /\ \/ \E n \in OtherNodes, r \in OtherRules :
            matchNode = n /\ matchRule = r
       \/ \E arg \in ArgNodes, argPattern \in ArgPatterns, shape \in CallShapes :
            matchNode = callNode(arg, shape) /\ matchRule = callRuleFor(argPattern, shape)
    /\ matchPc = "ready"
    /\ matchResult = "none"

\* analyzeNode, part_004:236-237: matchesPattern(node, pattern) is called for
\* a node of the file and a loaded rule.
MatchesPattern ==
    /\ matchPc = "ready"
    /\ matchResult' = matchesPattern(matchNode, matchRule)
    /\ matchPc' = "done"
    /\ UNCHANGED <<matchNode, matchRule>>
    /\ UNCHANGED notMatch

NextMatch == MatchesPattern

(***************************************************************************)
(* Claims about the matchers, checked under SpecMatch.                      *)
(***************************************************************************)
\* The call was f(arg) against a rule with the one argument pattern p.
oneArgumentCall ==
    /\ matchPc = "done"
    /\ matchNode.type = "CallExpression"
    /\ Len(matchNode.arguments) = 1
    /\ matchRule.pattern # <<>>
    /\ matchRule.pattern[1].arguments # <<>>
    /\ Len(matchRule.pattern[1].arguments[1]) = 1

theArgument == matchNode.arguments[1]

theArgumentPattern == matchRule.pattern[1].arguments[1][1]

\* No value sub-pattern in ps carries an invalid regex.
regexesValid(ps) ==
    \A j \in 1..Len(ps) : ps[j].regex = <<>> \/ ps[j].regex[1] \in DOMAIN RegexLanguage

\* C13: matchObjectPattern with a property list is existential: true iff
\* some property of the node has the key of some pattern property and a
\* value matching that pattern property's value sub-pattern; matchArrayPattern
\* with an element list requires equal length and every position to match.
C13_ObjectExistentialArrayUniversal ==
    /\ (/\ oneArgumentCall
        /\ theArgument.type = "ObjectExpression"
        /\ theArgumentPattern.type = "ObjectExpression"
        /\ theArgumentPattern.properties # <<>>
        /\ regexesValid([j \in 1..Len(theArgumentPattern.properties[1]) |->
                            theArgumentPattern.properties[1][j].value]))
       => LET props == theArgument.properties
              pprops == theArgumentPattern.properties[1]
          IN matchResult = bool(
                \E i \in 1..Len(props) : \E j \in 1..Len(pprops) :
                    /\ props[i].type = "Property"
                    /\ props[i].key.name = pprops[j].key
                    /\ matchLiteralPattern(props[i].value, pprops[j].value) = "true")
    /\ (/\ oneArgumentCall
        /\ theArgument.type = "ArrayExpression"
        /\ theArgumentPattern.type = "ArrayExpression"
        /\ theArgumentPattern.elements # <<>>
        /\ regexesValid(theArgumentPattern.elements[1]))
       => LET elements == theArgument.elements
              pelements == theArgumentPattern.elements[1]
          IN matchResult = bool(
                /\ Len(elements) = Len(pelements)
                /\ \A i \in 1..Len(elements) :
                    /\ elements[i].type = "Literal"
                    /\ matchLiteralPattern(elements[i], pelements[i]) = "true")

\* f({a: 1, b: 2}) matched a rule requiring {a: 1, c: 3}.
C13_Witness ==
    /\ oneArgumentCall
    /\ theArgument = ObjectExpression(<<Property(Identifier("a"), LiteralValue("1")),
                                        Property(Identifier("b"), LiteralValue("2"))>>)
    /\ theArgumentPattern.properties =
            <<(<<[key |-> "a", value |-> litValue("1")],
                 [key |-> "c", value |-> litValue("3")]>>)>>
    /\ matchResult = "true"

\* C14: matchesPattern returns a boolean and never throws, for every node
\* and every loaded rule, a rule with an invalid regex string and a rule
\* whose argument or element list differs in length from the node's included.
C14_MatchNeverThrows ==
    matchPc = "done" => matchResult \in {"true", "false"}

\* A member node satisfies a member sub-pattern: the object is the named
\* identifier (or `this` for a this-expression), the property the named
\* identifier or string literal.
satisfiesMember(node, sub) ==
    /\ \/ sub.object = <<>>
       \/ node.object.type = "Identifier" /\ node.object.name = sub.object[1]
       \/ node.object.type = "ThisExpression" /\ sub.object[1] = "this"
    /\ \/ sub.property = <<>>
       \/ node.property.type = "Identifier" /\ node.property.name = sub.property[1]
       \/ node.property.type = "Literal" /\ node.property.value = sub.property[1]

\* A call node satisfies a call sub-pattern: a bare-identifier callee has
\* the name the pattern gives.
satisfiesCall(node, sub) ==
    \/ sub.name = <<>>
    \/ node.callee.type # "Identifier"
    \/ node.callee.name = sub.name[1]

\* A member, call or assignment node against a sub-pattern, by the rule of
\* its kind.
satisfiesCompound(node, sub) ==
    /\ sub.type = node.type
    /\ CASE node.type = "MemberExpression" -> satisfiesMember(node, sub)
         [] node.type = "CallExpression" -> satisfiesCall(node, sub)
         [] OTHER -> TRUE

Compound == {"MemberExpression", "CallExpression", "AssignmentExpression"}

\* C25: a call pattern with an argument-pattern list matches a call iff the
\* counts are equal and every argument matches its sub-pattern by the rule
\* of its kind, whatever the kind: a member, call or assignment argument
\* matches a sub-pattern of its kind whose constraints it satisfies.
C25_CompoundArgumentsMatch ==
    (oneArgumentCall /\ theArgument.type \in Compound)
        => matchResult = bool(satisfiesCompound(theArgument, theArgumentPattern))

\* The call was an assignment against a rule with a right-hand sub-pattern
\* and no other constraint.
assignmentOfCompound ==
    /\ matchPc = "done"
    /\ matchNode.type = "AssignmentExpression"
    /\ matchNode.right.type \in {"MemberExpression", "CallExpression"}
    /\ matchRule.type = "AssignmentExpression"
    /\ matchRule.nodeType = <<>>
    /\ matchRule.operator = <<>>
    /\ matchRule.left = <<>>
    /\ matchRule.right # <<>>
    /\ matchRule.right[1].type \in {"MemberExpression", "CallExpression"}

\* C26: a member or call sub-pattern nested in another pattern enforces its
\* own constraints as at top level: x = o.p matches a right-hand member
\* pattern only with that object and property, x = g() a right-hand call
\* pattern only with that callee name.
C26_NestedPatternsEnforced ==
    assignmentOfCompound
        => matchResult = bool(satisfiesCompound(matchNode.right, matchRule.right[1]))

(***************************************************************************)
(* The rule set of a Scanner: loadCodePatterns, loadCustomRules and         *)
(* addCustomPattern.                                                        *)
(***************************************************************************)
\* A rule of a rule file: description is "" when the rule has none.
Rules ==
    {[id |-> "r1", description |-> "d", severity |-> "high"],
     [id |-> "r2", description |-> "d", severity |-> "low"],
     [id |-> "r3", description |-> "d", severity |-> "moderate"],
     [id |-> "r4", description |-> "", severity |-> "low"]}

\* The filter of loadCustomRules, part_004:684-689.
validRule(rule) ==
    /\ rule.id # ""
    /\ rule.description # ""
    /\ rule.severity # ""
    /\ rule.severity \in {"low", "medium", "high", "critical"}

validRules(customRules) == SelectSeq(customRules, validRule)

\* this.codePatterns after loadCodePatterns read fileRules, part_004:92-97.
loadedCodePatterns(current, fileRules, custom) ==
    IF Len(custom) > 0 THEN fileRules \o custom ELSE fileRules

RuleFiles == UNION {[1..n -> Rules] : n \in 0..MaxRules}

InitRules ==
    /\ codePatterns = <<>>
    /\ customPatterns \in {<<>>, <<[id |-> "r2", description |-> "d", severity |-> "low"]>>}
    /\ baseLoaded = <<>>
    /\ customLoaded = <<>>

\* loadCodePatterns(patternsPath), part_004:89-101: readable is FALSE when
\* the file cannot be read or parsed, and the catch block leaves the rules.
LoadCodePatterns ==
    /\ \E readable \in BOOLEAN, fileRules \in RuleFiles :
        /\ Len(loadedCodePatterns(codePatterns, fileRules, customPatterns)) <= MaxLoaded
        /\ IF readable
           THEN /\ codePatterns' = loadedCodePatterns(codePatterns, fileRules, customPatterns)
                /\ baseLoaded' = fileRules
           ELSE UNCHANGED <<codePatterns, baseLoaded>>
    /\ UNCHANGED <<customPatterns, customLoaded>>
    /\ UNCHANGED notRules

\* loadCustomRules(rulesPath), part_004:677-696.
LoadCustomRules ==
    /\ \E readable \in BOOLEAN, customRules \in RuleFiles :
        /\ Len(codePatterns) + Len(customRules) <= MaxLoaded
        /\ Len(customLoaded) + Len(customRules) <= MaxLoaded
        /\ IF readable
           THEN /\ codePatterns' = codePatterns \o validRules(customRules)
                /\ customLoaded' = customLoaded \o validRules(customRules)
           ELSE UNCHANGED <<codePatterns, customLoaded>>
    /\ UNCHANGED <<customPatterns, baseLoaded>>
    /\ UNCHANGED notRules

\* addCustomPattern(pattern), part_004:786-788.
AddCustomPattern ==
    /\ Len(codePatterns) < MaxLoaded
    /\ Len(customLoaded) < MaxLoaded
    /\ \E pattern \in Rules :
        /\ codePatterns' = Append(codePatterns, pattern)
        /\ customLoaded' = IF validRule(pattern) THEN Append(customLoaded, pattern)
                           ELSE customLoaded
    /\ UNCHANGED <<customPatterns, baseLoaded>>
    /\ UNCHANGED notRules

NextRules ==
    \/ LoadCodePatterns
    \/ LoadCustomRules
    \/ AddCustomPattern

\* How often rule occurs in rules.
occurrences(rules, rule) == Cardinality({i \in 1..Len(rules) : rules[i] = rule})

\* C15: after any sequence of loadCodePatterns, loadCustomRules and
\* addCustomPattern calls the active rule set holds every rule of the base
\* file and every valid custom rule loaded so far, duplicates retained:
\* loading one source never removes rules contributed by another.
C15_RuleSetIsUnion ==
    \A rule \in Rules :
        occurrences(codePatterns, rule)
            >= occurrences(baseLoaded, rule) + occurrences(customLoaded, rule)

(***************************************************************************)
(* scanProject and scanProjectInParallel over one source file, with the     *)
(* rule set of the Scanner that analyses it.                                *)
(***************************************************************************)
\* The ids of the rules that match some node of the project's source file.
MatchingRules == {"r1", "r2"}

\* analyzeNode over the file, part_004:236-255: one finding per rule of the
\* Scanner's codePatterns that matches.
patternFindings(rules) ==
    LET matching == SelectSeq(rules, LAMBDA rule : rule.id \in MatchingRules)
    IN [i \in 1..Len(matching) |->
            [filePath |-> "a.js", severity |-> matching[i].severity,
             matchedPattern |-> matching[i]]]

\* this.codePatterns of the Scanner a worker constructs, scanner.worker.ts
\* 13-20: new Scanner(options) starts from [], and only
\* loadCustomRules(options.customRules) adds to it.
workerCodePatterns(customRules) ==
    IF customRules # <<>> THEN validRules(customRules[1]) ELSE <<>>

\* scanProject, part_004:721-735: scanSourceFile on this Scanner, filtered.
scanProject(rules, minimum) ==
    filterBySeverity(filterBySeverity(patternFindings(rules), minimum), minimum)

\* scanProjectInParallel, part_004:737-764: each worker's scanSourceFile on
\* its own Scanner, then the caller's filter.
scanProjectInParallel(customRules, workerMinimum, minimum) ==
    filterBySeverity(
        filterBySeverity(patternFindings(workerCodePatterns(customRules)), workerMinimum),
        minimum)

noRegime == [kind |-> "none", value |-> <<>>]

InitRegime ==
    /\ InitRules
    /\ customRulesFile \in {<<>>} \cup {<<file>> : file \in [1..1 -> Rules]}
    /\ regimeFound = noRegime

ScanProjectSequentially ==
    /\ regimeFound' = [kind |-> "scanProject",
                       value |-> scanProject(codePatterns, minSeverity)]
    /\ UNCHANGED customRulesFile
    /\ UNCHANGED notRegime

ScanProjectInParallel ==
    /\ regimeFound' = [kind |-> "scanProjectInParallel",
                       value |-> scanProjectInParallel(customRulesFile, workerMinSeverity,
                                                       minSeverity)]
    /\ UNCHANGED customRulesFile
    /\ UNCHANGED notRegime

\* The caller loads base rules and scans, by either regime, in any order.
NextRegime ==
    \/ LoadCodePatterns
    \/ ScanProjectSequentially
    \/ ScanProjectInParallel

\* C29: on a Scanner with base rules loaded by loadCodePatterns, every
\* pattern finding scanProject returns for a source file is also returned by
\* scanProjectInParallel for that file.
C29_ParallelFindsWhatSequentialFinds ==
    (regimeFound.kind = "scanProjectInParallel" /\ baseLoaded # <<>>) =>
        \A i \in 1..Len(scanProject(codePatterns, minSeverity)) :
            \E j \in 1..Len(regimeFound.value) :
                regimeFound.value[j] = scanProject(codePatterns, minSeverity)[i]

(***************************************************************************)
(* Cache and VulnerabilityCache of ml/detector.ts, and the database loads   *)
(* of Scanner that go through them. One caller at a time: each operation    *)
(* runs to its end before the next starts.                                  *)
(***************************************************************************)
\* this.ttl, in ticks of the clock.
ttl == 1

\* fs.promises.unlink(filePath)
unlink(store, key) == [k \in DOMAIN store \ {key} |-> store[k]]

\* fs.promises.writeFile(filePath, JSON.stringify(entry))
writeFile(store, key, entry) ==
    [k \in DOMAIN store \cup {key} |-> IF k = key THEN entry ELSE store[k]]

\* Cache.get that answers null for an expired entry and leaves the file.
cacheGetKeepsExpired(store, key, t) ==
    IF key \notin DOMAIN store
    THEN [entry |-> <<>>, store |-> store, branch |-> "missing"]
    ELSE IF t - store[key].timestamp > ttl
    THEN [entry |-> <<>>, store |-> store, branch |-> "expired"]
    ELSE [entry |-> <<store[key]>>, store |-> store, branch |-> "live"]

\* Cache.get(key) at time t, detector.ts:145-166: the entry returned (<<>>
\* for null) and the store afterwards.
cacheGet(store, key, t) ==
    IF key \notin DOMAIN store
    THEN [entry |-> <<>>, store |-> store, branch |-> "missing"]
    ELSE IF t - store[key].timestamp > ttl
    THEN [entry |-> <<>>, store |-> unlink(store, key), branch |-> "expired"]
    ELSE [entry |-> <<store[key]>>, store |-> store, branch |-> "live"]

\* Cache.set(key, data, etag) at time t, detector.ts:168-185.
cacheSet(store, key, data, etag, t) ==
    writeFile(store, key, [timestamp |-> t, etag |-> etag, data |-> data])

\* Cache.has(key), detector.ts:187-190.
cacheHas(store, key) == key \in DOMAIN store

\* Object.entries(data).forEach(([library, info]) => vulnerabilityDB.set(...))
setEntries(db, data) ==
    [p \in DOMAIN db \cup DOMAIN data |-> IF p \in DOMAIN data THEN data[p] ELSE db[p]]

\* loadVulnerabilityDB(dbPath) at time t, part_004:61-87: file is <<>> when
\* the file cannot be read or parsed, <<data>> otherwise.
loadVulnerabilityDB(db, store, key, file, t) ==
    LET got == cacheGet(store, key, t)
    IN IF got.entry # <<>>
       THEN [db |-> setEntries(db, got.entry[1].data), store |-> got.store,
             returned |-> TRUE, loaded |-> <<got.entry[1].data>>]
       ELSE IF file = <<>>
       THEN [db |-> db, store |-> got.store, returned |-> FALSE, loaded |-> <<>>]
       ELSE [db |-> setEntries(db, file[1]),
             store |-> cacheSet(got.store, key, file[1], <<>>, t),
             returned |-> TRUE, loaded |-> file]

\* axios.get(url, {headers}) with the default configuration: the promise is
\* rejected on a network error and for a status outside 200..299.
axiosResolves(response) ==
    /\ response.kind = "response"
    /\ response.status >= 200
    /\ response.status < 300

\* The catch block of updateVulnerabilityDB, were it to fall back on the
\* cached payload.
afterRejectionLoadsCache(db, cached) ==
    IF cached = <<>> THEN db ELSE setEntries(db, cached[1].data)

\* The in-memory database after the catch block of updateVulnerabilityDB,
\* part_004:841-844: it only logs and returns false.
afterRejection(db, cached) == db

\* updateVulnerabilityDB(url) at time t, part_004:806-845.
updateVulnerabilityDB(db, store, key, response, t) ==
    LET cached == cacheGet(store, key, t)
        cachedEntry == cacheGet(cached.store, key, t)
        ifNoneMatch == IF cachedEntry.entry # <<>> THEN cachedEntry.entry[1].etag ELSE <<>>
    IN IF ~axiosResolves(response)
       THEN [db |-> afterRejection(db, cached.entry), store |-> cachedEntry.store,
             returned |-> FALSE, ifNoneMatch |-> ifNoneMatch]
       ELSE IF response.status = 304
       THEN IF cached.entry # <<>>
            THEN [db |-> setEntries(db, cached.entry[1].data), store |-> cachedEntry.store,
                  returned |-> TRUE, ifNoneMatch |-> ifNoneMatch]
            ELSE [db |-> db, store |-> cachedEntry.store,
                  returned |-> FALSE, ifNoneMatch |-> ifNoneMatch]
       ELSE IF response.data # <<>>
       THEN [db |-> setEntries(db, response.data[1]),
             store |-> cacheSet(cachedEntry.store, key, response.data[1], response.etag, t),
             returned |-> TRUE, ifNoneMatch |-> ifNoneMatch]
       ELSE [db |-> db, store |-> cachedEntry.store,
             returned |-> FALSE, ifNoneMatch |-> ifNoneMatch]

\* The database files and payloads: package name -> info.
Databases ==
    {dbWith("jquery", "high", <<>>), dbWith("lodash", "low", <<>>),
     setEntries(dbWith("jquery", "low", <<>>), dbWith("lodash", "low", <<>>))}

CacheKeys == {"db.json", "https://db"}

Etags == {<<>>, <<"e1">>, <<"e2">>}

\* What the server or the network answers to a request.
Responses ==
    {[kind |-> "error", status |-> 0, data |-> <<>>, etag |-> <<>>],
     [kind |-> "response", status |-> 304, data |-> <<>>, etag |-> <<>>],
     [kind |-> "response", status |-> 500, data |-> <<>>, etag |-> <<>>]}
    \cup {[kind |-> "response", status |-> 200, data |-> <<d>>, etag |-> e] :
            d \in Databases, e \in Etags \ {<<>>}}

noCacheCall ==
    [op |-> "none", key |-> "", branch |-> "", returned |-> FALSE, entry |-> <<>>,
     loaded |-> <<>>, response |-> <<>>, ifNoneMatch |-> <<>>]

InitCache ==
    /\ cacheFiles = NoModules
    /\ now = 0
    /\ cacheCall = noCacheCall

\* Time passes.
Tick ==
    /\ now < MaxTime
    /\ now' = now + 1
    /\ cacheCall' = noCacheCall
    /\ UNCHANGED <<cacheFiles, vulnerabilityDB>>
    /\ UNCHANGED notCache

\* Cache.get(key), detector.ts:145-166.
CacheGet ==
    /\ \E key \in CacheKeys :
        LET got == cacheGet(cacheFiles, key, now)
        IN /\ cacheFiles' = got.store
           /\ cacheCall' = [noCacheCall EXCEPT !.op = "get", !.key = key,
                                               !.branch = got.branch, !.entry = got.entry]
    /\ UNCHANGED <<now, vulnerabilityDB>>
    /\ UNCHANGED notCache

\* Cache.has(key), detector.ts:187-190.
CacheHas ==
    /\ \E key \in CacheKeys :
        cacheCall' = [noCacheCall EXCEPT !.op = "has", !.key = key,
                                         !.returned = cacheHas(cacheFiles, key)]
    /\ UNCHANGED <<cacheFiles, now, vulnerabilityDB>>
    /\ UNCHANGED notCache

\* loadVulnerabilityDB(dbPath), part_004:61-87.
LoadVulnerabilityDB ==
    /\ \E key \in CacheKeys, file \in {<<>>} \cup {<<d>> : d \in Databases} :
        LET load == loadVulnerabilityDB(vulnerabilityDB, cacheFiles, key, file, now)
        IN /\ vulnerabilityDB' = load.db
           /\ cacheFiles' = load.store
           /\ cacheCall' = [noCacheCall EXCEPT !.op = "load", !.key = key,
                                               !.returned = load.returned,
                                               !.loaded = load.loaded]
    /\ UNCHANGED now
    /\ UNCHANGED notCache

\* updateVulnerabilityDB(url), part_004:806-845. A server answers 304 only
\* to a request that carries If-None-Match.
UpdateVulnerabilityDB ==
    /\ \E key \in CacheKeys, response \in Responses :
        LET update == updateVulnerabilityDB(vulnerabilityDB, cacheFiles, key, response, now)
        IN /\ response.status = 304 => update.ifNoneMatch # <<>>
           /\ vulnerabilityDB' = update.db
           /\ cacheFiles' = update.store
           /\ cacheCall' = [noCacheCall EXCEPT !.op = "update", !.key = key,
                                               !.returned = update.returned,
                                               !.response = <<response>>,
                                               !.ifNoneMatch = update.ifNoneMatch]
    /\ UNCHANGED now
    /\ UNCHANGED notCache

\* new Scanner(options), part_004:31-59: a fresh in-memory database over the
\* cache directory the earlier Scanner left behind.
NewScanner ==
    /\ vulnerabilityDB' = NoModules
    /\ cacheCall' = [noCacheCall EXCEPT !.op = "new"]
    /\ UNCHANGED <<cacheFiles, now>>
    /\ UNCHANGED notCache

NextCache ==
    \/ Tick
    \/ NewScanner
    \/ CacheGet
    \/ CacheHas
    \/ LoadVulnerabilityDB
    \/ UpdateVulnerabilityDB

(***************************************************************************)
(* Claims about the cache and the database loads, checked under SpecCache.  *)
(***************************************************************************)
\* C16: after every successful loadVulnerabilityDB the in-memory database
\* holds exactly the packages of the data just loaded; a package of an
\* earlier load only is gone.
C16_LoadReplacesDatabase ==
    (cacheCall.op = "load" /\ cacheCall.returned)
        => DOMAIN vulnerabilityDB = DOMAIN cacheCall.loaded[1]

\* The age of the stored entry of key exceeds the TTL.
expired(key) ==
    /\ key \in DOMAIN cacheFiles
    /\ now - cacheFiles[key].timestamp > ttl

\* The step is a call of Cache.get.
getStep == cacheCall'.op = "get"

\* C17: Cache.get answers absent for an entry older than the TTL and removes
\* it during that read, so that has and get report it missing afterwards,
\* and only a set stores the key again; an entry within the TTL is returned
\* as stored and stays stored.
C17_GetEvictsExpired ==
    [][/\ (getStep /\ expired(cacheCall'.key)) =>
            /\ cacheCall'.entry = <<>>
            /\ ~cacheHas(cacheFiles', cacheCall'.key)
            /\ cacheGet(cacheFiles', cacheCall'.key, now').entry = <<>>
       /\ (getStep /\ cacheCall'.key \in DOMAIN cacheFiles /\ ~expired(cacheCall'.key)) =>
            /\ cacheCall'.entry = <<cacheFiles[cacheCall'.key]>>
            /\ cacheFiles' = cacheFiles
       /\ \A key \in CacheKeys :
            (~cacheHas(cacheFiles, key) /\ cacheHas(cacheFiles', key))
                => (cacheCall'.op \in {"load", "update"} /\ cacheCall'.key = key)
      ]_vars

\* A get has just found an entry past its TTL, and the key is gone.
C17_Witness ==
    /\ cacheCall.op = "get"
    /\ cacheCall.branch = "expired"
    /\ cacheCall.entry = <<>>
    /\ ~cacheHas(cacheFiles, cacheCall.key)
    /\ cacheFiles # NoModules

\* The step is a call of updateVulnerabilityDB.
updateStep == cacheCall'.op = "update"

\* The entry of key as Cache.get reports it now: <<>> when absent or expired.
liveEntry(store, key) == cacheGet(store, key, now).entry

\* C18: updateVulnerabilityDB sends the etag of the cached entry as
\* If-None-Match; on 304 it loads the database from the cached payload,
\* leaves the cache entry alone and returns true; on another successful
\* response it overwrites the cache entry with the response data and etag,
\* loads the database from the response and returns true.
C18_ConditionalUpdate ==
    [][updateStep =>
        LET key == cacheCall'.key
            response == cacheCall'.response[1]
            cached == liveEntry(cacheFiles, key)
        IN /\ (cached # <<>> /\ cached[1].etag # <<>>)
                => cacheCall'.ifNoneMatch = cached[1].etag
           /\ (response.kind = "response" /\ response.status = 304 /\ cached # <<>>) =>
                /\ cacheCall'.returned
                /\ vulnerabilityDB' = setEntries(vulnerabilityDB, cached[1].data)
                /\ cacheFiles' = cacheFiles
           /\ (response.kind = "response" /\ response.status = 200) =>
                /\ cacheCall'.returned
                /\ vulnerabilityDB' = setEntries(vulnerabilityDB, response.data[1])
                /\ cacheFiles'[key].data = response.data[1]
                /\ cacheFiles'[key].etag = response.etag
      ]_vars

\* C19: when the fetch of updateVulnerabilityDB fails with a network error
\* the call returns false, the in-memory database is unchanged and so is the
\* cache entry of the URL (a live entry stays as stored, an absent or expired
\* one stays absent): the cached payload is not loaded as a substitute.
C19_NetworkErrorChangesNothing ==
    [][(updateStep /\ cacheCall'.response[1].kind = "error") =>
        /\ ~cacheCall'.returned
        /\ vulnerabilityDB' = vulnerabilityDB
        /\ liveEntry(cacheFiles', cacheCall'.key) = liveEntry(cacheFiles, cacheCall'.key)
        /\ \A key \in DOMAIN cacheFiles' : cacheFiles'[key] = cacheFiles[key]
        /\ DOMAIN cacheFiles' \subseteq DOMAIN cacheFiles
      ]_vars

\* An update has just failed on a network error while a live cached copy
\* holds a package the in-memory database lacks.
C19_Witness ==
    /\ cacheCall.op = "update"
    /\ cacheCall.response[1].kind = "error"
    /\ ~cacheCall.returned
    /\ liveEntry(cacheFiles, cacheCall.key) # <<>>
    /\ \E p \in DOMAIN liveEntry(cacheFiles, cacheCall.key)[1].data :
            p \notin DOMAIN vulnerabilityDB

(***************************************************************************)
(* The legacy Scanner of scanner.js: _parseVersion, _isVersionVulnerable.   *)
(***************************************************************************)
\* The weights _parseVersion gives to the major and the minor component.
MajorWeight == 10000
MinorWeight == 100

\* _parseVersion(version), scanner.js:97-100. NaN * 10000 is NaN.
parseVersion(version) ==
    LET parts == [i \in 1..Len(split(version)) |-> Number(split(version)[i])]
    IN IF parts[1] = NaN THEN NaN
       ELSE parts[1] * MajorWeight + partOrZero(parts, 2) * MinorWeight
                + partOrZero(parts, 3)

\* range.bound ? this._parseVersion(range.bound) : null, null as <<>>.
parsedBound(bound) == IF Truthy(bound) THEN <<parseVersion(bound[1])>> ELSE <<>>

\* Truthiness of a parsed bound: null, 0 and NaN are falsy.
truthyNumber(n) == n # <<>> /\ n[1] # 0 /\ n[1] # NaN

\* a < b and a >= b on numbers: false when either is NaN.
lessThan(a, b) == a # NaN /\ b # NaN /\ a < b
atLeast(a, b) == a # NaN /\ b # NaN /\ a >= b

\* The predicate _isVersionVulnerable hands to ranges.some, scanner.js:81-93.
rangeVulnerable(version, range) ==
    LET versionNum == parseVersion(version)
        atOrAbove == parsedBound(range.atOrAbove)
        below == parsedBound(range.below)
    IN IF truthyNumber(atOrAbove) /\ truthyNumber(below)
       THEN atLeast(versionNum, atOrAbove[1]) /\ lessThan(versionNum, below[1])
       ELSE IF truthyNumber(atOrAbove) THEN atLeast(versionNum, atOrAbove[1])
       ELSE IF truthyNumber(below) THEN lessThan(versionNum, below[1])
       ELSE FALSE

\* _isVersionVulnerable(version, ranges), scanner.js:80-95.
isVersionVulnerable(version, ranges) ==
    \E i \in 1..Len(ranges) : rangeVulnerable(version, ranges[i])

\* Version components: small ones, and 100, the first the minor weight
\* cannot hold.
LegacyComps == {0, 1, MinorWeight}

\* (major, minor, patch) and the one-component versions.
LegacyTuples == [1..VersionParts -> LegacyComps] \cup [1..1 -> LegacyComps]

LegacyTable == {<<join(t), tuple3(t)>> : t \in LegacyTuples}

LegacyStrings == {p[1] : p \in LegacyTable}

legacyTuple(s) == (CHOOSE p \in LegacyTable : p[1] = s)[2]

LegacyBounds == {Absent} \cup {Some(s) : s \in LegacyStrings}

InitLegacy ==
    /\ legacyVersion \in LegacyStrings
    /\ \E a \in LegacyBounds, b \in LegacyBounds :
            legacyRanges = <<[atOrAbove |-> a, below |-> b]>>
    /\ legacyPc = "called"
    /\ legacyVulnerable = FALSE

\* One call of _isVersionVulnerable.
IsVersionVulnerable ==
    /\ legacyPc = "called"
    /\ legacyVulnerable' = isVersionVulnerable(legacyVersion, legacyRanges)
    /\ legacyPc' = "done"
    /\ UNCHANGED <<legacyVersion, legacyRanges>>
    /\ UNCHANGED notLegacy

NextLegacy == IsVersionVulnerable

(***************************************************************************)
(* Claim about the legacy version order, checked under SpecLegacy.          *)
(***************************************************************************)
\* _parseVersion orders u and v as their 3-tuples are ordered.
ordersAsTuples(u, v) ==
    /\ (parseVersion(u) < parseVersion(v)) <=> tupleLess(legacyTuple(u), legacyTuple(v))
    /\ (parseVersion(u) = parseVersion(v)) <=> (legacyTuple(u) = legacyTuple(v))

\* The range decided by comparison of 3-tuples; a range with one bound is
\* half-open.
tupleDecision(version, range) ==
    LET v == legacyTuple(version) IN
    IF range.atOrAbove # Absent /\ range.below # Absent
    THEN tupleLessEq(legacyTuple(range.atOrAbove[1]), v)
            /\ tupleLess(v, legacyTuple(range.below[1]))
    ELSE IF range.atOrAbove # Absent THEN tupleLessEq(legacyTuple(range.atOrAbove[1]), v)
    ELSE IF range.below # Absent THEN tupleLess(v, legacyTuple(range.below[1]))
    ELSE FALSE

\* C20: in the legacy Scanner _parseVersion(u) < _parseVersion(v) iff u
\* precedes v as a (major, minor, patch) 3-tuple, and the two are equal iff
\* the 3-tuples are, components of 100 or more included, so that
\* _isVersionVulnerable decides a range with a positive lower bound, or none,
\* by comparison of 3-tuples.
C20_LegacyOrderIsTupleOrder ==
    legacyPc = "done" =>
        LET range == legacyRanges[1] IN
        /\ range.below # Absent => ordersAsTuples(legacyVersion, range.below[1])
        /\ range.atOrAbove # Absent => ordersAsTuples(legacyVersion, range.atOrAbove[1])
        /\ (range.atOrAbove = Absent \/ parseVersion(range.atOrAbove[1]) # 0)
                => (legacyVulnerable <=> tupleDecision(legacyVersion, range))

(***************************************************************************)
(* Claims about the severity filter, checked under SpecScan.                *)
(***************************************************************************)
\* The severity order low < medium < high < critical, written as a table.
KnownSeverities == {"low", "medium", "high", "critical"}

severityRank(sev) ==
    CASE sev = "low" -> 1
      [] sev = "medium" -> 2
      [] sev = "high" -> 3
      [] sev = "critical" -> 4

atOrAbove(sev, minimum) ==
    sev \in KnownSeverities /\ severityRank(sev) >= severityRank(minimum)

\* The findings of xs that carry one of the four severities.
knownFindings(xs) ==
    LET known(f) == f.severity \in KnownSeverities
    IN SelectSeq(xs, known)

RECURSIVE isSubsequence(_, _)
isSubsequence(xs, ys) ==
    IF xs = <<>> THEN TRUE
    ELSE IF ys = <<>> THEN FALSE
    ELSE IF Head(xs) = Head(ys) THEN isSubsequence(Tail(xs), Tail(ys))
    ELSE isSubsequence(xs, Tail(ys))

\* C7: the severity filter keeps exactly the findings whose severity is at
\* or above the configured minimum in the order low < medium < high <
\* critical, in their original order; with the minimum at high only high and
\* critical findings remain.
C7_FilterKeepsAtOrAbove ==
    LET keep(f) == atOrAbove(f.severity, lastFilter.minimum)
    IN /\ knownFindings(lastFilter.output) = SelectSeq(knownFindings(lastFilter.input), keep)
       /\ isSubsequence(lastFilter.output, lastFilter.input)
       /\ lastFilter.minimum = "high" =>
            \A i \in 1..Len(lastFilter.output) :
                lastFilter.output[i].severity \in {"high", "critical"}

\* The filter ran with the minimum at high on findings of all four
\* severities and kept two of them.
C7_Witness ==
    /\ lastFilter.minimum = "high"
    /\ KnownSeverities \subseteq
            {lastFilter.input[i].severity : i \in 1..Len(lastFilter.input)}
    /\ Len(lastFilter.output) = 2

\* C8: whatever a public scan operation hands to its caller contains only
\* findings at or above the minimum severity in force when the operation
\* returns, even if the minimum was changed while the operation ran.
C8_ReturnedAtOrAboveMinimum ==
    handed.outcome = "resolved" =>
        \A i \in 1..Len(handed.value) :
            atOrAbove(handed.value[i].severity, handed.minimum)

\* scanProject returned findings under a minimum of critical although it
\* had accumulated a low finding: the minimum was raised while it ran.
C8_Witness ==
    /\ handed.kind = "scanProject"
    /\ handed.outcome = "resolved"
    /\ handed.minimum = "critical"
    /\ handed.value # <<>>
    /\ lastFilter.input # handed.value
    /\ \E i \in 1..Len(lastFilter.input) : lastFilter.input[i].severity = "low"

\* C30: with the minimum at `low`, the lowest level, filterBySeverity keeps
\* every finding of its input, one whose severity string is not among the
\* four levels included.
C30_LowestMinimumKeepsAll ==
    lastFilter.minimum = "low" => lastFilter.output = lastFilter.input

(***************************************************************************)
(* Specifications: one per part of the engine; the state of the other parts *)
(* stays as constructed.                                                    *)
(***************************************************************************)
IdleDep ==
    /\ vulnerabilityDB = NoModules
    /\ dependencies = <<>>
    /\ nodeModules = NoModules
    /\ vulnerabilities = <<>>
    /\ depPc = "idle"
    /\ lastCall = <<>>

IdleFlow ==
    /\ ast = <<>>
    /\ dataFlowGraph = <<>>
    /\ flowPc = "idle"
    /\ query = <<>>
    /\ stack = <<>>
    /\ flowResult = [sources |-> <<>>, sinks |-> <<>>]

IdlePar ==
    /\ files = <<>>
    /\ numWorkers = 1
    /\ workers = <<>>
    /\ thread = NoThreads
    /\ port = NoThreads
    /\ promises = NoThreads
    /\ callPc = "unused"
    /\ results = <<>>
    /\ completedFiles = 0

IdleScan ==
    /\ minSeverity = "low"
    /\ constructedMin = <<>>
    /\ project = <<>>
    /\ op = idleOp
    /\ lastFilter = noFilterCall
    /\ handed = nothingHanded

IdleMatch ==
    /\ matchNode = <<>>
    /\ matchRule = <<>>
    /\ matchPc = "idle"
    /\ matchResult = "none"

IdleRules ==
    /\ codePatterns = <<>>
    /\ customPatterns = <<>>
    /\ baseLoaded = <<>>
    /\ customLoaded = <<>>

IdleCache ==
    /\ cacheFiles = NoModules
    /\ now = 0
    /\ cacheCall = noCacheCall

IdleLegacy ==
    /\ legacyVersion = <<>>
    /\ legacyRanges = <<>>
    /\ legacyPc = "idle"
    /\ legacyVulnerable = FALSE

IdleWatch ==
    /\ inFlight = <<>>
    /\ enableDataFlow = TRUE
    /\ analysed = <<>>

IdleRegime ==
    /\ customRulesFile = <<>>
    /\ regimeFound = noRegime

IdleOverlap == calls = <<>>

NextDep == ScanDependencies

StartDep == InitDep /\ IdleFlow /\ IdlePar /\ IdleScan /\ IdleMatch /\ IdleRules /\ IdleCache /\ IdleLegacy /\ IdleWatch /\ IdleRegime /\ IdleOverlap

SpecDep == StartDep /\ [][NextDep]_vars

NextFlow ==
    \/ BuildDataFlowGraph
    \/ AnalyzeDataFlow
    \/ FindDataFlowSinks
    \/ SourcesCall
    \/ SourcesReturn
    \/ SinksCall
    \/ SinksReturn

StartFlow == InitFlow /\ IdleDep /\ IdlePar /\ IdleScan /\ IdleMatch /\ IdleRules /\ IdleCache /\ IdleLegacy /\ IdleWatch /\ IdleRegime /\ IdleOverlap

SpecFlow == StartFlow /\ [][NextFlow]_vars

StartPar == InitPar /\ IdleDep /\ IdleFlow /\ IdleScan /\ IdleMatch /\ IdleRules /\ IdleCache /\ IdleLegacy /\ IdleWatch /\ IdleRegime /\ IdleOverlap

SpecPar == StartPar /\ [][NextPar]_vars

SpecParSetup == StartPar /\ [][NextParSetup]_vars

StartScan == InitScan /\ IdleFlow /\ IdlePar /\ IdleMatch /\ IdleRules /\ IdleCache /\ IdleLegacy /\ IdleWatch /\ IdleRegime /\ IdleOverlap

SpecScan == StartScan /\ [][NextScan]_vars

StartMatch == InitMatch /\ IdleDep /\ IdleFlow /\ IdlePar /\ IdleScan /\ IdleRules /\ IdleCache /\ IdleLegacy /\ IdleWatch /\ IdleRegime /\ IdleOverlap

SpecMatch == StartMatch /\ [][NextMatch]_vars

StartRules ==
    InitRules /\ IdleDep /\ IdleFlow /\ IdlePar /\ IdleScan /\ IdleMatch /\ IdleCache /\ IdleLegacy /\ IdleWatch /\ IdleRegime /\ IdleOverlap

SpecRules == StartRules /\ [][NextRules]_vars

StartCache ==
    InitCache /\ IdleDep /\ IdleFlow /\ IdlePar /\ IdleScan /\ IdleMatch /\ IdleRules /\ IdleLegacy /\ IdleWatch /\ IdleRegime /\ IdleOverlap

SpecCache == StartCache /\ [][NextCache]_vars

StartLegacy ==
    InitLegacy /\ IdleDep /\ IdleFlow /\ IdlePar /\ IdleScan /\ IdleMatch /\ IdleRules
        /\ IdleCache /\ IdleWatch /\ IdleRegime /\ IdleOverlap

SpecLegacy == StartLegacy /\ [][NextLegacy]_vars

StartWatch ==
    InitWatch /\ IdleDep /\ IdlePar /\ IdleScan /\ IdleMatch /\ IdleRules /\ IdleCache
        /\ IdleLegacy /\ IdleFlow /\ IdleRegime /\ IdleOverlap

SpecWatch == StartWatch /\ [][NextWatch]_vars

StartRegime ==
    InitRegime /\ IdleDep /\ IdleFlow /\ IdlePar /\ IdleScan /\ IdleMatch /\ IdleCache
        /\ IdleLegacy /\ IdleWatch /\ IdleOverlap

SpecRegime == StartRegime /\ [][NextRegime]_vars

StartOverlap ==
    InitOverlap /\ IdleDep /\ IdleFlow /\ IdleScan /\ IdleMatch /\ IdleRules /\ IdleCache
        /\ IdleLegacy /\ IdleWatch /\ IdleRegime

SpecOverlap == StartOverlap /\ [][NextOverlap]_vars

====
